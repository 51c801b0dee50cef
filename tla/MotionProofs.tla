---------------------------- MODULE MotionProofs ----------------------------
(***************************************************************************)
(* What motion leads to.  The gate, for every pre-roll, post-roll, lag and *)
(* clock bound: it never loses footage whose event could still reach it,   *)
(* and it implements SegmentFate.  Motion events, for any number of        *)
(* cameras and edits: movements close to each other share a row, and of    *)
(* the pictures that wait the newest are kept.                             *)
(***************************************************************************)
EXTENDS MotionGate, MotionEvents, SequenceTheorems, TLAPS

Closed == inFlight \cup held \cup kept \cup dropped

(* Segments are proper, closed no later than the file being written was    *)
(* opened; those in flight are not older than the lag allows.              *)
Timely ==
  /\ \A s \in Closed : s.start < s.end /\ s.end <= openedAt
  /\ \A s \in inFlight : now <= s.end + MaxLag
  /\ inFlight \cap held = {}

(* As long as events can still arrive, none of them can reach a dropped    *)
(* segment any more.                                                       *)
DropsAreFinal == alive => \A d \in dropped : d.end + Pre <= now

IInv == /\ TypeOK /\ Timely /\ DropsAreFinal
        /\ ForgottenIsHarmless /\ PreRollNeverLost

(* The inductive invariant holds initially.                                *)
LEMMA InitIInv == Init => IInv
  BY GateAssumption DEF Init, IInv, TypeOK, Timely, Closed, DropsAreFinal,
     ForgottenIsHarmless, PreRollNeverLost, Segment

(* One step of the gate, by action: the type invariant.                    *)
LEMMA TypeStep == TypeOK /\ [Next]_vars => TypeOK'
<1> SUFFICES ASSUME TypeOK, [Next]_vars PROVE TypeOK'
  OBVIOUS
<1> USE GateAssumption DEF TypeOK, Segment
<1>1. CASE Tick
  BY <1>1 DEF Tick
<1>2. CASE Cut
  BY <1>2 DEF Cut
<1>3. CASE NoteEvent
  BY <1>3 DEF NoteEvent
<1>4. CASE Settle
  BY <1>4 DEF Settle, Due, Remembered
<1>5. CASE Flush
  BY <1>5 DEF Flush
<1>6. ASSUME NEW s \in inFlight, Offer(s) PROVE TypeOK'
  BY <1>6 DEF Offer
<1>7. CASE UNCHANGED vars
  BY <1>7 DEF vars
<1> QED BY <1>1, <1>2, <1>3, <1>4, <1>5, <1>6, <1>7 DEF Next

(* A step keeps segments proper and timely.                                *)
LEMMA TimelyStep == TypeOK /\ Timely /\ [Next]_vars => Timely'
<1> SUFFICES ASSUME TypeOK, Timely, [Next]_vars PROVE Timely'
  OBVIOUS
<1> USE GateAssumption DEF TypeOK, Segment, Timely, Closed
<1>1. CASE Tick
  BY <1>1 DEF Tick
<1>2. CASE Cut
  BY <1>2 DEF Cut
<1>3. CASE NoteEvent
  BY <1>3 DEF NoteEvent
<1>4. CASE Settle
  BY <1>4 DEF Settle, Due
<1>5. CASE Flush
  BY <1>5 DEF Flush
<1>6. ASSUME NEW s \in inFlight, Offer(s) PROVE Timely'
  BY <1>6 DEF Offer
<1>7. CASE UNCHANGED vars
  BY <1>7 DEF vars
<1> QED BY <1>1, <1>2, <1>3, <1>4, <1>5, <1>6, <1>7 DEF Next

(* A step forgets only events that cannot reach an undecided segment.      *)
LEMMA ForgottenStep ==
  TypeOK /\ Timely /\ ForgottenIsHarmless /\ [Next]_vars => ForgottenIsHarmless'
<1> SUFFICES ASSUME TypeOK, Timely, ForgottenIsHarmless, [Next]_vars
             PROVE ForgottenIsHarmless'
  OBVIOUS
<1> USE GateAssumption DEF TypeOK, Segment, Timely, Closed, ForgottenIsHarmless
<1>1. CASE Tick
  BY <1>1 DEF Tick
<1>2. CASE Cut
  BY <1>2 DEF Cut
<1>3. CASE NoteEvent
  BY <1>3 DEF NoteEvent
<1>4. CASE Settle
  <2>1. ASSUME NEW e \in seen \ events' PROVE e + Post < now
    BY <1>4, <2>1 DEF Settle, Remembered, Hold
  <2>2. ASSUME NEW e \in seen \ events', NEW s \in held' \cup inFlight'
        PROVE  e + Post < s.end
    <3>1. CASE e \notin events
      BY <1>4, <2>2, <3>1 DEF Settle, Due
    <3>2. CASE e \in events
      <4>1. e + Post + Pre < now
        BY <1>4, <2>2, <3>2 DEF Settle, Remembered, Hold
      <4>2. now <= s.end + Pre
        BY <1>4, <2>2 DEF Settle, Due, Hold
      <4> QED BY <1>4, <4>1, <4>2 DEF Settle, Due
    <3> QED BY <3>1, <3>2
  <2> QED BY <1>4, <2>1, <2>2 DEF Settle
<1>5. CASE Flush
  BY <1>5 DEF Flush
<1>6. ASSUME NEW s \in inFlight, Offer(s) PROVE ForgottenIsHarmless'
  BY <1>6 DEF Offer
<1>7. CASE UNCHANGED vars
  BY <1>7 DEF vars
<1> QED BY <1>1, <1>2, <1>3, <1>4, <1>5, <1>6, <1>7 DEF Next

(* What settle() and flush() drop, no event seen so far must keep.         *)
LEMMA DropIsSound ==
  ASSUME TypeOK, Timely, ForgottenIsHarmless,
         NEW d \in held, ~ AnyEventCovers(d),
         NEW e \in seen
  PROVE  ~ (d.end <= e + Post /\ e < d.end + Pre)
<1> USE GateAssumption DEF TypeOK, Segment, Timely, Closed
<1>1. CASE e \in events
  BY <1>1 DEF AnyEventCovers, Covers
<1>2. CASE e \notin events
  BY <1>2 DEF ForgottenIsHarmless
<1> QED BY <1>1, <1>2

(* A step drops only what no event, seen or to come, must keep.            *)
LEMMA DropStep ==
  IInv /\ [Next]_vars => DropsAreFinal' /\ PreRollNeverLost'
<1> SUFFICES ASSUME IInv, [Next]_vars PROVE DropsAreFinal' /\ PreRollNeverLost'
  OBVIOUS
<1> USE GateAssumption DEF IInv, TypeOK, Segment, DropsAreFinal, PreRollNeverLost
<1>1. CASE Tick
  BY <1>1 DEF Tick
<1>2. CASE Cut
  BY <1>2 DEF Cut
<1>3. CASE NoteEvent
  BY <1>3 DEF NoteEvent
<1>4. CASE Settle
  <2>1. DropsAreFinal'
    BY <1>4 DEF Settle, Due, Hold
  <2>2. ASSUME NEW d \in dropped', NEW e \in seen'
        PROVE  ~ (d.end <= e + Post /\ e < d.end + Pre)
    BY <1>4, <2>2, DropIsSound DEF Settle, Due
  <2> QED BY <2>1, <2>2
<1>5. CASE Flush
  <2>1. ASSUME NEW d \in dropped', NEW e \in seen'
        PROVE  ~ (d.end <= e + Post /\ e < d.end + Pre)
    BY <1>5, <2>1, DropIsSound DEF Flush
  <2> QED BY <1>5, <2>1 DEF Flush
<1>6. ASSUME NEW s \in inFlight, Offer(s) PROVE DropsAreFinal' /\ PreRollNeverLost'
  BY <1>6 DEF Offer
<1>7. CASE UNCHANGED vars
  BY <1>7 DEF vars
<1> QED BY <1>1, <1>2, <1>3, <1>4, <1>5, <1>6, <1>7 DEF Next

(* The inductive invariant of the gate.                                    *)
LEMMA GateInvariant == Spec => []IInv
<1>1. IInv /\ [Next]_vars => IInv'
  BY TypeStep, TimelyStep, ForgottenStep, DropStep DEF IInv
<1> QED BY InitIInv, <1>1, PTL DEF Spec

(* Every variable of the gate keeps its type.                              *)
THEOREM GateTypeCorrect == Spec => []TypeOK
<1>1. IInv => TypeOK
  BY DEF IInv
<1> QED BY GateInvariant, <1>1, PTL

(* Footage that an event in its last Post seconds or in the Pre seconds    *)
(* after it asks for is never deleted, whatever sweeps, late offers and    *)
(* shutdown do in between.                                                 *)
THEOREM GatePreRollSafe == Spec => []PreRollNeverLost
<1>1. IInv => PreRollNeverLost
  BY DEF IInv
<1> QED BY GateInvariant, <1>1, PTL

(* forgetOldEvents never forgets an event that could reach the end of a    *)
(* segment whose fate is open.                                             *)
THEOREM GatePruningHarmless == Spec => []ForgottenIsHarmless
<1>1. IInv => ForgottenIsHarmless
  BY DEF IInv
<1> QED BY GateInvariant, <1>1, PTL

(* A step of the gate is a step of SegmentFate or changes nothing there.   *)
LEMMA FateStep == IInv /\ IInv' /\ [Next]_vars => [Fate!Next]_(Fate!fateVars)
<1> SUFFICES ASSUME IInv, IInv', [Next]_vars
             PROVE  Fate!Next \/ UNCHANGED Fate!fateVars
  OBVIOUS
<1> USE GateAssumption DEF IInv, Fate!fateVars
<1>1. CASE Tick
  BY <1>1 DEF Tick
<1>2. CASE Cut
  <2> DEFINE s == [start |-> openedAt, end |-> now]
  <2>1. openedAt \in 0 .. MaxTime /\ now \in 0 .. MaxTime
    BY DEF TypeOK
  <2>2. s \notin (held \cup inFlight) \cup kept \cup dropped
    BY <1>2 DEF Cut, Timely, Closed, TypeOK, Segment
  <2>3. Fate!Appear(s)
    BY <1>2, <2>2 DEF Cut, Fate!Appear
  <2> QED BY <2>1, <2>3 DEF Fate!Next
<1>3. CASE NoteEvent
  <2>1. now \in 0 .. MaxTime
    BY DEF TypeOK
  <2>2. \A d \in dropped : ~ Fate!MustKeep(now, d)
    BY <1>3 DEF NoteEvent, DropsAreFinal, Fate!MustKeep, TypeOK, Segment
  <2>3. Fate!Event(now)
    BY <1>3, <2>2 DEF NoteEvent, Fate!Event
  <2> QED BY <2>1, <2>3 DEF Fate!Next
<1>4. CASE Settle
  <2> DEFINE keep == {s \in Due : AnyEventCovers(s)}
             drop == {s \in Due : ~ AnyEventCovers(s)}
  <2>1. keep \in SUBSET (held \cup inFlight) /\ drop \in SUBSET (held \cup inFlight)
    BY DEF Due
  <2>2. \A s \in keep : \E e \in seen : Fate!Covers(e, s)
    BY DEF AnyEventCovers, Covers, Fate!Covers, TypeOK
  <2>3. \A s \in drop : \A e \in seen : ~ Fate!MustKeep(e, s)
    BY DropIsSound DEF Due, Fate!MustKeep
  <2>4. (held \cup inFlight)' = (held \cup inFlight) \ (keep \cup drop)
    BY <1>4 DEF Settle, Due, Timely
  <2>5. Fate!Decide(keep, drop)
    BY <1>4, <2>2, <2>3, <2>4 DEF Settle, Fate!Decide
  <2> QED BY <2>1, <2>5 DEF Fate!Next
<1>5. CASE Flush
  <2> DEFINE keep == {s \in held : AnyEventCovers(s)}
             drop == {s \in held : ~ AnyEventCovers(s)}
  <2>1. keep \in SUBSET (held \cup inFlight) /\ drop \in SUBSET (held \cup inFlight)
    OBVIOUS
  <2>2. \A s \in keep : \E e \in seen : Fate!Covers(e, s)
    BY DEF AnyEventCovers, Covers, Fate!Covers, TypeOK
  <2>3. \A s \in drop : \A e \in seen : ~ Fate!MustKeep(e, s)
    BY DropIsSound DEF Fate!MustKeep
  <2>4. (held \cup inFlight)' = (held \cup inFlight) \ (keep \cup drop)
    BY <1>5 DEF Flush, Timely
  <2>5. Fate!Decide(keep, drop)
    BY <1>5, <2>2, <2>3, <2>4 DEF Flush, Fate!Decide
  <2> QED BY <2>1, <2>5 DEF Fate!Next
<1>6. ASSUME NEW s \in inFlight, Offer(s) PROVE UNCHANGED Fate!fateVars
  BY <1>6 DEF Offer
<1>7. CASE UNCHANGED vars
  BY <1>7 DEF vars
<1> QED BY <1>1, <1>2, <1>3, <1>4, <1>5, <1>6, <1>7 DEF Next

(* The gate implements the promise made of a motion-triggered camera.      *)
THEOREM GateImplementsFate == Spec => ImplementsFate
<1>1. Init => Fate!Init
  BY DEF Init, Fate!Init
<1>2. Spec => []IInv
  BY GateInvariant
<1> QED BY <1>1, <1>2, FateStep, PTL DEF Spec, ImplementsFate, Fate!Spec

-----------------------------------------------------------------------------
(* Motion events.                                                          *)

(* While a camera was left alone its row is as quiet as the detector, and  *)
(* when it has none its last event has been over for the hold; detector    *)
(* and recorder store alike, and no event runs that the recorder missed.   *)
Agrees(c) ==
  calm[c] => /\ quiet[c] = IF open[c] # 0 THEN detector[c].since ELSE PostMotion
             /\ detector[c].saves = saving[c] /\ (saving[c] /\ open[c] = 0 => ~ detector[c].was)

OpensWell(c) == Opens(c) /\ calm[c] => quiet[c] = PostMotion /\ rows'[open'[c]].carried

Ordered(q) == \A i, j \in DOMAIN q : i < j => q[i] < q[j]

(* NewestIsKept, of a queue and rows.                                      *)
Keeps(q, all) ==
  \A i \in DOMAIN all : all[i].carried /\ q # <<>> /\ i >= Head(q) => \E k \in DOMAIN q : q[k] = i

Row == [cam : Cameras, state : {"open", "closed", "lost"}, carried : BOOLEAN, picture : BOOLEAN]
Detector == [on : BOOLEAN, since : 0 .. PostMotion, was : BOOLEAN, saves : BOOLEAN]
Thread(n) == [at : {"top", "dozing", "asleep", "encoding", "ended"}, item : 0 .. n]

SettingsInv ==
  /\ setting \in [Cameras -> [motion : BOOLEAN, saves : BOOLEAN]]
  /\ applying \in [Cameras -> SUBSET BOOLEAN] /\ saving \in [Cameras -> BOOLEAN]

EdgesInv ==
  /\ detector \in [Cameras -> Detector] /\ quiet \in [Cameras -> 0 .. PostMotion]
  /\ calm \in [Cameras -> BOOLEAN] /\ \A c \in Cameras : Agrees(c)

RowsInv ==
  /\ rows \in Seq(Row) /\ open \in [Cameras -> 0 .. Len(rows)]
  /\ queue \in Seq(1 .. Len(rows)) /\ Len(queue) <= MaxPending /\ running \in BOOLEAN
  /\ writer \in Thread(Len(rows)) /\ (writer.at = "encoding" => writer.item # 0)
  /\ Ordered(queue) /\ (running => Keeps(queue, rows))

EventsInv == SettingsInv /\ EdgesInv /\ RowsInv

(* The writer takes the head.                                              *)
LEMMA TailKeeps ==
  ASSUME NEW n \in Nat, NEW q \in Seq(1 .. n), q # <<>>, Ordered(q), NEW all, Keeps(q, all),
         DOMAIN all \subseteq Int
  PROVE  /\ Tail(q) \in Seq(1 .. n) /\ Len(Tail(q)) <= Len(q) /\ Head(q) \in 1 .. n
         /\ Ordered(Tail(q)) /\ Keeps(Tail(q), all)
<1> DEFINE t == Tail(q)
<1>1. /\ Len(q) \in Nat \ {0} /\ DOMAIN q = 1 .. Len(q) /\ Head(q) = q[1]
      /\ \A i \in 1 .. Len(q) : q[i] \in 1 .. n
  BY EmptySeq, LenProperties, ElementOfSeq
<1>2. /\ t \in Seq(1 .. n) /\ Len(t) = Len(q) - 1 /\ DOMAIN t = 1 .. Len(q) - 1
      /\ \A i \in 1 .. Len(q) - 1 : t[i] = q[i + 1]
  BY HeadTailProperties, LenProperties
<1>3. t # <<>> => Len(q) - 1 >= 1 /\ Head(t) = t[1]
  BY <1>1, <1>2, EmptySeq
<1> HIDE DEF t
<1>4. Ordered(t)
  <2> SUFFICES ASSUME NEW i \in 1 .. Len(q) - 1, NEW j \in 1 .. Len(q) - 1, i < j
               PROVE  t[i] < t[j]
    BY <1>2 DEF Ordered
  <2>1. i + 1 \in DOMAIN q /\ j + 1 \in DOMAIN q /\ i + 1 < j + 1
    BY <1>1, <1>2
  <2>2. q[i + 1] < q[j + 1]
    BY <2>1 DEF Ordered
  <2> QED BY <1>2, <2>2
<1>5. Keeps(t, all)
  <2> SUFFICES ASSUME NEW i \in DOMAIN all, all[i].carried, t # <<>>, i >= Head(t)
               PROVE  \E k \in DOMAIN t : t[k] = i
    BY DEF Keeps
  <2>1. 1 \in DOMAIN q /\ 2 \in DOMAIN q /\ Head(t) = q[2] /\ 1 < 2
    BY <1>1, <1>2, <1>3
  <2>2. q[1] < q[2]
    BY <2>1 DEF Ordered
  <2>3. i \in Int /\ q[1] \in Int /\ q[2] \in Int
    BY <1>1, <2>1
  <2>4. i > q[1] /\ i >= Head(q)
    BY <1>1, <2>1, <2>2, <2>3
  <2>5. PICK k \in DOMAIN q : q[k] = i
    BY <2>4 DEF Keeps
  <2>6. k # 1 /\ k \in 1 .. Len(q)
    BY <1>1, <2>3, <2>4, <2>5
  <2>7. k - 1 \in DOMAIN t /\ t[k - 1] = q[k]
    BY <1>1, <1>2, <2>6
  <2> QED BY <2>5, <2>7
<1> QED BY <1>1, <1>2, <1>4, <1>5 DEF t

(* A picture is queued, and the oldest goes when the queue is full.        *)
LEMMA QueuedKeeps ==
  ASSUME NEW n \in Nat, NEW q \in Seq(1 .. n), Len(q) <= MaxPending, Ordered(q),
         NEW all, DOMAIN all = 1 .. n, Keeps(q, all),
         NEW more, DOMAIN more = 1 .. n + 1, \A i \in 1 .. n : more[i] = all[i]
  PROVE  /\ Queued(q, n + 1) \in Seq(1 .. n + 1) /\ Len(Queued(q, n + 1)) <= MaxPending
         /\ Ordered(Queued(q, n + 1)) /\ Keeps(Queued(q, n + 1), more)
<1> DEFINE a == Append(q, n + 1)
           L == Len(q)
           first == IF L >= MaxPending THEN 2 ELSE 1
           r == Queued(q, n + 1)
<1>1. MaxPending \in Nat \ {0}
  BY EventsAssumption
<1>2. /\ L \in Nat /\ DOMAIN q = 1 .. L /\ \A i \in 1 .. L : q[i] \in 1 .. n
      /\ L > 0 => Head(q) = q[1] /\ q # <<>>
  BY LenProperties, ElementOfSeq, EmptySeq
<1>3. q \in Seq(1 .. n + 1) /\ n + 1 \in 1 .. n + 1
  <2>1. 1 .. n \subseteq 1 .. n + 1
    OBVIOUS
  <2> QED BY <2>1
<1>4. /\ Len(a) = L + 1 /\ a[L + 1] = n + 1 /\ \A i \in 1 .. L : a[i] = q[i]
  BY <1>3, AppendProperties
<1>5. \A i \in 1 .. L + 1 : a[i] \in 1 .. n + 1
  BY <1>2, <1>3, <1>4
<1>6. first \in {1, 2} /\ first <= L + 1 /\ r = SubSeq(a, first, L + 1)
  <2> DEFINE m == IF L >= MaxPending THEN MaxPending ELSE L + 1
  <2>1. r = SubSeq(a, Len(a) - m + 1, Len(a))
    BY DEF Queued
  <2>2. Len(a) - m + 1 = first
    BY <1>1, <1>2, <1>4
  <2>3. first \in {1, 2} /\ first <= L + 1
    BY <1>1, <1>2
  <2> HIDE DEF m, first, a, r, L
  <2> QED BY <1>4, <2>1, <2>2, <2>3
<1> HIDE DEF a
<1>7. first \in Int /\ L + 1 \in Int /\ \A i \in first .. L + 1 : a[i] \in 1 .. n + 1
  BY <1>2, <1>5, <1>6
<1> DEFINE top == L + 2 - first
<1>8. /\ r \in Seq(1 .. n + 1) /\ Len(r) = top /\ \A i \in 1 .. top : r[i] = a[first + i - 1]
  <2>1. /\ SubSeq(a, first, L + 1) \in Seq(1 .. n + 1)
        /\ Len(SubSeq(a, first, L + 1)) = IF first <= L + 1 THEN L + 1 - first + 1 ELSE 0
        /\ \A i \in 1 .. L + 1 - first + 1 : SubSeq(a, first, L + 1)[i] = a[first + i - 1]
    <3> DEFINE last == L + 1
               S == 1 .. n + 1
    <3>1. last \in Int /\ first \in Int /\ \A i \in first .. last : a[i] \in S
      BY <1>7
    <3> HIDE DEF first, last, S
    <3>2. /\ SubSeq(a, first, last) \in Seq(S)
          /\ Len(SubSeq(a, first, last)) = IF first <= last THEN last - first + 1 ELSE 0
          /\ \A i \in 1 .. last - first + 1 : SubSeq(a, first, last)[i] = a[first + i - 1]
      BY <3>1, SubSeqProperties
    <3> QED BY <3>2 DEF last, S
  <2>2. L + 1 - first + 1 = top
    BY <1>2, <1>6
  <2> HIDE DEF first, top, L, r
  <2> QED BY <1>6, <2>1, <2>2
<1>9. DOMAIN r = 1 .. top /\ top \in Nat /\ top >= 1 /\ top <= MaxPending /\ r # <<>> /\ Head(r) = r[1]
  <2>1. top \in Nat /\ top >= 1 /\ top <= MaxPending
    BY <1>1, <1>2, <1>6
  <2> HIDE DEF top, r
  <2>2. r # <<>>
    BY <1>8, <2>1, EmptySeq
  <2> QED BY <1>8, <2>1, <2>2, LenProperties
<1>10. /\ \A k \in 1 .. top : first + k - 1 \in 1 .. L + 1
       /\ \A k \in first .. L + 1 : k - first + 1 \in 1 .. top /\ first + (k - first + 1) - 1 = k
  BY <1>2, <1>6
<1>11. \A i, j \in 1 .. L + 1 : i < j => a[i] < a[j]
  <2> SUFFICES ASSUME NEW i \in 1 .. L + 1, NEW j \in 1 .. L + 1, i < j PROVE a[i] < a[j]
    OBVIOUS
  <2>1. i \in 1 .. L /\ a[i] = q[i] /\ q[i] \in 1 .. n
    BY <1>2, <1>4
  <2>2. CASE j \in 1 .. L
    BY <1>2, <1>4, <2>1, <2>2 DEF Ordered
  <2>3. CASE j = L + 1
    BY <1>4, <2>1, <2>3
  <2> QED BY <1>2, <2>2, <2>3
<1> HIDE DEF first, top, L, r
<1>12. Ordered(r)
  <2> SUFFICES ASSUME NEW i \in 1 .. top, NEW j \in 1 .. top, i < j PROVE r[i] < r[j]
    BY <1>9 DEF Ordered
  <2>1. first + i - 1 < first + j - 1
    BY <1>7, <1>9
  <2> QED BY <1>8, <1>10, <1>11, <2>1
<1>13. Keeps(r, more)
  <2> SUFFICES ASSUME NEW i \in 1 .. n + 1, more[i].carried, i >= r[1]
               PROVE  \E k \in 1 .. top : r[k] = i
    BY <1>9 DEF Keeps
  <2>1. ASSUME NEW k \in first .. L + 1, a[k] = i
        PROVE  \E m \in 1 .. top : r[m] = i
    BY <1>8, <1>10, <2>1
  <2>2. L + 1 \in first .. L + 1 /\ first \in 1 .. L + 1 /\ first \in {1, 2} /\ r[1] = a[first]
    BY <1>2, <1>6, <1>7, <1>8, <1>9
  <2>3. CASE i = n + 1
    BY <1>4, <2>1, <2>2, <2>3
  <2>4. CASE i # n + 1
    <3>1. i \in 1 .. n /\ all[i].carried
      BY <2>4
    <3>2. L > 0 /\ Head(q) = q[1] /\ q # <<>>
      <4>1. L = 0 => a[first] = n + 1
        BY <1>4, <2>2
      <4>2. L # 0
        BY <2>2, <3>1, <4>1
      <4> QED BY <1>2, <4>2
    <3>3. a[1] = q[1] /\ a[1] <= a[first] /\ a[first] <= i /\ a[1] \in Int /\ a[first] \in Int
      <4>1. a[1] \in 1 .. n + 1 /\ a[first] \in 1 .. n + 1 /\ (1 < first => a[1] < a[first])
        BY <1>2, <1>5, <1>11, <2>2, <3>2
      <4>2. a[1] <= a[first]
        BY <2>2, <4>1
      <4> QED BY <1>2, <1>4, <2>2, <3>2, <4>1, <4>2
    <3>4. i >= Head(q)
      BY <3>1, <3>2, <3>3
    <3>5. PICK k \in DOMAIN q : q[k] = i
      BY <3>1, <3>2, <3>4 DEF Keeps
    <3>6. k \in 1 .. L /\ a[k] = i
      BY <1>2, <1>4, <3>5
    <3>7. ~ (k < first)
      <4>1. k < first => a[k] < a[first]
        BY <1>2, <1>11, <2>2, <3>6
      <4> QED BY <3>1, <3>3, <3>6, <4>1
    <3>8. k \in first .. L + 1
      BY <1>2, <2>2, <3>6, <3>7
    <3> QED BY <2>1, <3>6, <3>8
  <2> QED BY <2>3, <2>4
<1> QED BY <1>8, <1>9, <1>12, <1>13 DEF r

LEMMA SameCarried ==
  ASSUME NEW q, NEW all, NEW more, Keeps(q, all), DOMAIN more = DOMAIN all,
         \A i \in DOMAIN all : more[i].carried = all[i].carried
  PROVE  Keeps(q, more)
BY DEF Keeps

LEMMA EventsInitOK == EventsInit => EventsInv
<1> SUFFICES ASSUME EventsInit PROVE EventsInv
  OBVIOUS
<1> USE EventsAssumption
<1>1. SettingsInv
  BY DEF EventsInit, SettingsInv
<1>2. EdgesInv
  <2>1. PostMotion \in 0 .. PostMotion
    OBVIOUS
  <2>2. \A saves \in BOOLEAN : Built(saves) \in Detector
    BY <2>1 DEF Built, Detector
  <2>3. detector \in [Cameras -> Detector]
    BY <2>2 DEF EventsInit
  <2>4. ASSUME NEW c \in Cameras PROVE Agrees(c)
    <3>1. detector[c] = Built(setting[c].saves) /\ saving[c] = setting[c].saves /\ open[c] = 0
      BY DEF EventsInit
    <3>2. quiet[c] = PostMotion
      BY DEF EventsInit
    <3> QED BY <3>1, <3>2 DEF Agrees, Built
  <2> QED BY <2>1, <2>3, <2>4 DEF EventsInit, EdgesInv
<1>3. RowsInv
  BY DEF EventsInit, RowsInv, Ordered, Keeps, Thread
<1> QED BY <1>1, <1>2, <1>3 DEF EventsInv

LEMMA RowsRest ==
  ASSUME RowsInv, UNCHANGED <<open, rows, queue, running, writer>> PROVE RowsInv'
BY DEF RowsInv

LEMMA RowsFacts ==
  ASSUME RowsInv
  PROVE  Len(rows) \in Nat /\ DOMAIN rows = 1 .. Len(rows) /\ \A i \in 1 .. Len(rows) : rows[i] \in Row
BY LenProperties, ElementOfSeq DEF RowsInv

LEMMA WokenKeeps ==
  ASSUME NEW n, NEW w \in Thread(n), w.at = "encoding" => w.item # 0
  PROVE  Woken(w) \in Thread(n) /\ (Woken(w).at = "encoding" => Woken(w).item # 0)
BY DEF Woken, Thread

LEMMA InsertKeeps ==
  ASSUME RowsInv, EdgesInv, NEW c \in Cameras, NEW carried \in BOOLEAN, NEW stored \in BOOLEAN,
         Insert(c, carried, stored)
  PROVE  RowsInv' /\ (stored => rows'[Len(rows) + 1].carried = carried)
<1> DEFINE n == Len(rows)
           row == [cam |-> c, state |-> "open", carried |-> carried, picture |-> FALSE]
<1>1. /\ n \in Nat /\ DOMAIN rows = 1 .. n /\ row \in Row /\ 1 .. n \subseteq 1 .. n + 1
      /\ 0 .. n \subseteq 0 .. n + 1 /\ n + 1 \in 0 .. n + 1
  BY RowsFacts DEF Row
<1>2. CASE ~ stored
  BY <1>2, RowsRest DEF Insert, Writer
<1>3. CASE stored
  <2>1. /\ rows' = Append(rows, row) /\ open' = [open EXCEPT ![c] = n + 1]
        /\ IF carried /\ running THEN Capture(n + 1) ELSE UNCHANGED queue /\ UNCHANGED Writer
    BY <1>3 DEF Insert
  <2> HIDE DEF row
  <2>2. /\ rows' \in Seq(Row) /\ Len(rows') = n + 1 /\ DOMAIN rows' = 1 .. n + 1
        /\ \A i \in 1 .. n : rows'[i] = rows[i]
        /\ rows'[n + 1] = row
    BY <1>1, <2>1, AppendProperties, LenProperties DEF RowsInv
  <2>3. rows'[n + 1].carried = carried
    BY <2>2 DEF row
  <2>4. open' \in [Cameras -> 0 .. n + 1]
    BY <1>1, <2>1 DEF RowsInv
  <2>5. /\ writer \in Thread(n + 1) /\ (writer.at = "encoding" => writer.item # 0)
        /\ running' = running /\ running \in BOOLEAN
    BY <1>1, <2>1 DEF RowsInv, Capture, Writer, Thread
  <2>6. CASE carried /\ running
    <3>1. queue' = Queued(queue, n + 1) /\ writer' = Woken(writer)
      BY <2>1, <2>6 DEF Capture
    <3>2. /\ queue' \in Seq(1 .. n + 1) /\ Len(queue') <= MaxPending /\ Ordered(queue')
          /\ Keeps(queue', rows')
      BY <1>1, <2>2, <2>6, <3>1, QueuedKeeps DEF RowsInv
    <3>3. writer' \in Thread(n + 1) /\ (writer'.at = "encoding" => writer'.item # 0)
      BY <2>5, <3>1, WokenKeeps
    <3>4. RowsInv'
      BY <2>2, <2>4, <2>5, <3>2, <3>3 DEF RowsInv
    <3> QED BY <2>2, <2>3, <3>4
  <2>7. CASE ~ (carried /\ running)
    <3>1. queue' = queue /\ writer' = writer
      BY <2>1, <2>7 DEF Writer
    <3>2. queue' \in Seq(1 .. n + 1) /\ Len(queue') <= MaxPending /\ Ordered(queue')
      BY <1>1, <3>1 DEF RowsInv
    <3>3. running => Keeps(queue, rows')
      <4> SUFFICES ASSUME running, NEW i \in 1 .. n + 1, rows'[i].carried, queue # <<>>,
                          i >= Head(queue)
                   PROVE  \E k \in DOMAIN queue : queue[k] = i
        BY <2>2 DEF Keeps
      <4>1. i # n + 1
        BY <2>3, <2>7
      <4>2. i \in DOMAIN rows /\ rows[i].carried
        BY <1>1, <2>2, <4>1
      <4> QED BY <4>2 DEF Keeps, RowsInv
    <3>4. RowsInv'
      BY <2>2, <2>4, <2>5, <3>1, <3>2, <3>3 DEF RowsInv
    <3> QED BY <2>2, <2>3, <3>4
  <2> QED BY <2>6, <2>7
<1> QED BY <1>2, <1>3

(* Rows change, and nothing that a picture depends on.                     *)
LEMMA RowsTouched ==
  ASSUME RowsInv, UNCHANGED <<queue, running>>, rows' \in [1 .. Len(rows) -> Row],
         \A i \in 1 .. Len(rows) : rows'[i].carried = rows[i].carried,
         open' \in [Cameras -> 0 .. Len(rows)],
         writer' \in Thread(Len(rows)), writer'.at = "encoding" => writer'.item # 0
  PROVE  RowsInv'
<1>1. Len(rows) \in Nat /\ DOMAIN rows = 1 .. Len(rows)
  BY RowsFacts
<1>2. rows' \in Seq(Row) /\ Len(rows') = Len(rows) /\ DOMAIN rows' = 1 .. Len(rows)
  <2> DEFINE n == Len(rows)
  <2>1. \A r \in [1 .. n -> Row] : r \in Seq(Row) /\ Len(r) = n /\ DOMAIN r = 1 .. n
    BY <1>1
  <2> QED BY <2>1
<1>3. running => Keeps(queue, rows')
  BY <1>1, <1>2, SameCarried DEF RowsInv
<1> QED BY <1>2, <1>3 DEF RowsInv

LEMMA CloseKeeps ==
  ASSUME RowsInv, NEW c \in Cameras, open[c] # 0, NEW stored \in BOOLEAN, Close(c, stored)
  PROVE  RowsInv'
<1> DEFINE n == Len(rows)
           state == IF stored THEN "closed" ELSE "lost"
           r == [rows[open[c]] EXCEPT !.state = state]
<1>1. n \in Nat /\ DOMAIN rows = 1 .. n /\ \A i \in 1 .. n : rows[i] \in Row
  BY RowsFacts
<1>2. open[c] \in 1 .. n
  BY <1>1 DEF RowsInv
<1>3. r \in Row /\ r.carried = rows[open[c]].carried
  BY <1>1, <1>2 DEF Row
<1>4. rows' = [rows EXCEPT ![open[c]] = r] /\ UNCHANGED <<queue, running, writer>>
  BY DEF Close, Writer
<1> HIDE DEF r
<1>5. rows' \in [1 .. n -> Row] /\ \A i \in 1 .. n : rows'[i].carried = rows[i].carried
  BY <1>1, <1>2, <1>3, <1>4
<1>6. open' \in [Cameras -> 0 .. n]
  BY <1>1 DEF Close, RowsInv
<1> QED BY <1>4, <1>5, <1>6, RowsTouched DEF RowsInv

(* A frame, on the decoder's thread.                                       *)
LEMMA FrameKeeps ==
  ASSUME EventsInv, NEW c \in Cameras, NEW fires \in BOOLEAN, Frame(c, fires)
  PROVE  EventsInv' /\ \A x \in Cameras : OpensWell(x)
<1> USE EventsAssumption
<1> DEFINE since == IF fires THEN 0 ELSE detector[c].since
           triggered == fires \/ StillHeld(since)
           was == Previously(detector[c], triggered)
           carried == triggered /\ Carries(detector[c])
           d == [detector[c] EXCEPT !.since = since, !.was = was]
<1>1. detector[c] \in Detector
  BY DEF EventsInv, EdgesInv
<1>2. /\ since \in 0 .. PostMotion /\ triggered \in BOOLEAN /\ was \in BOOLEAN
      /\ carried \in BOOLEAN /\ (~ triggered => since = PostMotion) /\ was = triggered
      /\ carried = (triggered /\ detector[c].saves /\ ~ detector[c].was)
  BY <1>1 DEF Detector, StillHeld, Previously, Carries
<1>3. PICK stored \in Outcomes : Observe(c, triggered, carried, stored)
  BY DEF Frame
<1>4. stored \in BOOLEAN
  BY <1>3 DEF Outcomes
<1>5. /\ detector' = [detector EXCEPT ![c] = d] /\ UNCHANGED Wiring
      /\ quiet' = [quiet EXCEPT ![c] = IF open'[c] # 0 THEN since ELSE @]
  BY DEF Frame
<1>6. d \in Detector /\ d.since = since /\ d.was = was /\ d.saves = detector[c].saves
  BY <1>1, <1>2 DEF Detector
<1> HIDE DEF since, triggered, was, carried, d
<1>7. SettingsInv'
  BY <1>5 DEF EventsInv, SettingsInv, Wiring
<1>8. /\ detector' \in [Cameras -> Detector] /\ detector'[c].since = since
      /\ detector'[c].was = triggered /\ detector'[c].saves = detector[c].saves
      /\ \A x \in Cameras \ {c} : detector'[x] = detector[x]
      /\ quiet' \in [Cameras -> 0 .. PostMotion]
      /\ quiet'[c] = IF open'[c] # 0 THEN since ELSE quiet[c]
      /\ \A x \in Cameras \ {c} : quiet'[x] = quiet[x]
  BY <1>2, <1>5, <1>6 DEF EventsInv, EdgesInv
<1>9. /\ open \in [Cameras -> 0 .. Len(rows)] /\ Len(rows) \in Nat /\ calm \in [Cameras -> BOOLEAN]
      /\ \A x \in Cameras : Agrees(x)
      /\ saving' = saving /\ saving \in [Cameras -> BOOLEAN]
  BY <1>5, RowsFacts DEF Wiring, EventsInv, SettingsInv, EdgesInv, RowsInv
<1> DEFINE Apart == /\ \A x \in Cameras \ {c} : open'[x] = open[x] /\ calm'[x] = calm[x]
                   /\ calm' \in [Cameras -> BOOLEAN]
           Closes == calm'[c] /\ open'[c] = 0 => /\ calm[c] /\ (open[c] = 0 \/ since = PostMotion)
                                              /\ (saving[c] => ~ triggered)
           Stores == calm'[c] => (calm[c] \/ (saving[c] /\ detector[c].saves))
           Carried == open[c] = 0 /\ open'[c] # 0
                      => saving[c] /\ triggered /\ rows'[open'[c]].carried = carried
<1>10. ASSUME saving[c] /\ triggered /\ open[c] = 0
       PROVE  RowsInv' /\ Apart /\ Closes /\ Stores /\ Carried
  <2>1. Insert(c, carried, stored)
    BY <1>3, <1>10 DEF Observe
  <2>2. RowsInv'
    BY <1>2, <1>4, <2>1, InsertKeeps DEF EventsInv
  <2>3. ASSUME stored PROVE Apart /\ Closes /\ Stores /\ Carried
    <3>1. open' = [open EXCEPT ![c] = Len(rows) + 1] /\ calm' = [calm EXCEPT ![c] = detector[c].saves]
      BY <2>1, <2>3 DEF Insert
    <3>2. detector[c].saves \in BOOLEAN /\ Len(rows) + 1 # 0
      BY <1>1, <1>9 DEF Detector
    <3>3. open'[c] # 0
      BY <1>9, <3>1, <3>2
    <3>4. Apart /\ Stores
      BY <1>9, <1>10, <3>1, <3>2
    <3>5. Carried
      BY <1>2, <1>4, <1>9, <1>10, <2>1, <2>3, <3>1, InsertKeeps DEF EventsInv
    <3> QED BY <3>3, <3>4, <3>5
  <2>4. ASSUME ~ stored PROVE Apart /\ Closes /\ Stores /\ Carried
    <3>1. open' = open /\ calm' = [calm EXCEPT ![c] = FALSE]
      BY <2>1, <2>4 DEF Insert
    <3>2. ~ calm'[c] /\ open'[c] = open[c]
      BY <1>9, <3>1
    <3>3. Apart
      BY <1>9, <3>1
    <3> QED BY <3>2, <3>3
  <2> QED BY <2>2, <2>3, <2>4
<1>11. ASSUME saving[c] /\ ~ triggered /\ open[c] # 0
       PROVE  RowsInv' /\ Apart /\ Closes /\ Stores /\ Carried
  <2>1. Close(c, stored)
    BY <1>3, <1>11 DEF Observe
  <2>2. RowsInv'
    BY <1>4, <1>11, <2>1, CloseKeeps DEF EventsInv
  <2>3. open' = [open EXCEPT ![c] = 0] /\ calm' = calm
    BY <2>1 DEF Close
  <2>4. Apart
    BY <1>9, <2>3
  <2>5. Closes /\ Stores /\ Carried
    BY <1>2, <1>9, <1>11, <2>3
  <2> QED BY <2>2, <2>4, <2>5
<1>12. ASSUME ~ (saving[c] /\ triggered /\ open[c] = 0),
             ~ (saving[c] /\ ~ triggered /\ open[c] # 0)
       PROVE  RowsInv' /\ Apart /\ Closes /\ Stores /\ Carried
  <2>1. UNCHANGED <<open, rows, queue, calm>> /\ UNCHANGED Writer
    BY <1>3, <1>12 DEF Observe
  <2>2. RowsInv'
    BY <2>1, RowsRest DEF Writer, EventsInv
  <2>3. Apart
    BY <1>9, <2>1
  <2>4. Closes /\ Stores /\ Carried
    BY <1>12, <2>1
  <2> QED BY <2>2, <2>3, <2>4
<1>13. RowsInv' /\ Apart /\ Closes /\ Stores /\ Carried
  <2> HIDE DEF Apart, Closes, Stores, Carried
  <2> QED BY <1>10, <1>11, <1>12
<1>14. ASSUME NEW x \in Cameras PROVE Agrees(x)'
  <2>1. CASE x # c
    BY <1>8, <1>9, <1>13, <2>1 DEF Agrees
  <2>2. CASE x = c
    <3> SUFFICES ASSUME calm'[c]
                 PROVE  quiet'[c] = IF open'[c] # 0 THEN detector'[c].since ELSE PostMotion
      <4>1. detector[c].saves \in BOOLEAN /\ saving[c] \in BOOLEAN
        BY <1>1, <1>9 DEF Detector
      <4>2. ASSUME calm'[c] PROVE detector'[c].saves = saving'[c]
        <5>1. calm[c] => detector[c].saves = saving[c]
          BY <1>9 DEF Agrees
        <5>2. calm[c] \/ (saving[c] /\ detector[c].saves)
          BY <1>13, <4>2
        <5> QED BY <1>8, <1>9, <4>1, <5>1, <5>2
      <4>3. ASSUME calm'[c], saving'[c], open'[c] = 0 PROVE ~ detector'[c].was
        <5>1. saving[c] => ~ triggered
          BY <1>13, <4>3
        <5> QED BY <1>8, <1>9, <4>3, <5>1
      <4> QED BY <2>2, <4>2, <4>3 DEF Agrees
    <3>1. CASE open'[c] # 0
      BY <1>8, <3>1
    <3>2. CASE open'[c] = 0
      <4>1. calm[c] /\ (open[c] = 0 \/ since = PostMotion) /\ quiet'[c] = quiet[c]
        BY <1>8, <1>13, <3>2
      <4>2. CASE open[c] = 0
        BY <1>9, <3>2, <4>1, <4>2 DEF Agrees
      <4>3. CASE open[c] # 0
        <5>1. since = PostMotion /\ quiet[c] = detector[c].since
          BY <1>9, <4>1, <4>3 DEF Agrees
        <5>2. detector[c].since = PostMotion
          BY <1>1, <5>1 DEF since, Detector
        <5> QED BY <3>2, <4>1, <5>1, <5>2
      <4> QED BY <4>2, <4>3
    <3> QED BY <3>1, <3>2
  <2> QED BY <2>1, <2>2
<1>15. EdgesInv'
  BY <1>8, <1>13, <1>14 DEF EdgesInv
<1>16. ASSUME NEW x \in Cameras, Opens(x), calm[x]
       PROVE  quiet[x] = PostMotion /\ rows'[open'[x]].carried
  <2>1. x = c
    BY <1>13, <1>16 DEF Opens
  <2>2. carried /\ rows'[open'[c]].carried = carried
    BY <1>2, <1>9, <1>13, <1>16, <2>1 DEF Opens, Agrees
  <2> QED BY <1>9, <1>16, <2>1, <2>2 DEF Opens, Agrees
<1> QED BY <1>7, <1>13, <1>15, <1>16 DEF EventsInv, OpensWell

(* Whoever applies the camera's row, and time, leave the rows alone.       *)
LEMMA EdgesKept ==
  ASSUME EventsInv, SettingsInv', UNCHANGED <<open, rows, queue, running, writer>>,
         detector' \in [Cameras -> Detector], UNCHANGED quiet, calm' \in [Cameras -> BOOLEAN],
         \A c \in Cameras : calm'[c] => calm[c] /\ detector'[c] = detector[c] /\ saving'[c] = saving[c]
  PROVE  EventsInv'
<1>1. \A c \in Cameras : Agrees(c)'
  BY DEF EventsInv, EdgesInv, Agrees
<1>2. EdgesInv'
  BY <1>1 DEF EventsInv, EdgesInv
<1> QED BY <1>2, RowsRest DEF EventsInv

LEMMA PassKeeps == ASSUME EventsInv, Pass PROVE EventsInv'
<1> USE EventsAssumption
<1>1. \A age \in 0 .. PostMotion : Older(age) \in 0 .. PostMotion
  BY DEF Older
<1>2. Older(PostMotion) = PostMotion
  BY DEF Older
<1>3. ASSUME NEW c \in Cameras
      PROVE  /\ detector'[c] \in Detector /\ detector'[c].since = Older(detector[c].since)
             /\ detector'[c].was = detector[c].was /\ detector'[c].saves = detector[c].saves
  <2>1. detector[c] \in Detector /\ detector'[c] = [detector[c] EXCEPT !.since = Older(@)]
    BY DEF EventsInv, EdgesInv, Pass
  <2> QED BY <1>1, <2>1 DEF Detector
<1>4. detector' = [c \in Cameras |-> detector'[c]]
  BY DEF Pass
<1>5. detector' \in [Cameras -> Detector]
  BY <1>3, <1>4
<1>6. quiet' \in [Cameras -> 0 .. PostMotion] /\ \A c \in Cameras : quiet'[c] = Older(quiet[c])
  BY <1>1 DEF Pass, EventsInv, EdgesInv
<1>7. \A c \in Cameras : Agrees(c)'
  <2> SUFFICES ASSUME NEW c \in Cameras, calm[c] PROVE Agrees(c)'
    BY DEF Pass, Agrees
  <2>1. /\ quiet[c] = IF open[c] # 0 THEN detector[c].since ELSE PostMotion
        /\ detector[c].saves = saving[c] /\ (saving[c] /\ open[c] = 0 => ~ detector[c].was)
    BY DEF EventsInv, EdgesInv, Agrees
  <2>2. UNCHANGED <<open, saving, calm>>
    BY DEF Pass, Wiring
  <2>3. quiet'[c] = IF open[c] # 0 THEN detector'[c].since ELSE PostMotion
    BY <1>2, <1>3, <1>6, <2>1
  <2> QED BY <1>3, <2>1, <2>2, <2>3 DEF Agrees
<1>8. EdgesInv'
  BY <1>5, <1>6, <1>7 DEF Pass, EventsInv, EdgesInv
<1>9. SettingsInv'
  BY DEF Pass, Wiring, EventsInv, SettingsInv
<1> QED BY <1>8, <1>9, RowsRest DEF Pass, Writer, EventsInv

LEMMA ApplyKeeps ==
  ASSUME EventsInv, NEW c \in Cameras, NEW rebuilt \in BOOLEAN, Apply(c, rebuilt)
  PROVE  EventsInv'
<1> DEFINE switched == detector[c].on # setting[c].motion
           next == IF ~ switched /\ ~ rebuilt THEN detector[c]
                   ELSE IF setting[c].motion THEN Built(setting[c].saves) ELSE Off
<1>1. setting[c].saves \in BOOLEAN /\ detector[c] \in Detector
  BY DEF EventsInv, SettingsInv, EdgesInv
<1>2. next \in Detector
  <2>1. PostMotion \in 0 .. PostMotion
    BY EventsAssumption
  <2>2. Built(setting[c].saves) \in Detector /\ Off \in Detector
    BY <1>1, <2>1 DEF Built, Off, Detector
  <2> QED BY <1>1, <2>2
<1>3. /\ detector' = [detector EXCEPT ![c] = next]
      /\ applying' = [applying EXCEPT ![c] = {setting[c].saves}]
      /\ calm' = [calm EXCEPT ![c] = @ /\ next = detector[c]]
      /\ UNCHANGED <<setting, saving, open, rows, queue, running, writer, quiet>>
  BY DEF Apply, Writer
<1> HIDE DEF next
<1>4. SettingsInv'
  BY <1>1, <1>3 DEF EventsInv, SettingsInv
<1>5. detector' \in [Cameras -> Detector]
  BY <1>2, <1>3 DEF EventsInv, EdgesInv
<1>6. calm' \in [Cameras -> BOOLEAN]
  BY <1>3 DEF EventsInv, EdgesInv
<1>7. \A x \in Cameras : calm'[x] => calm[x] /\ detector'[x] = detector[x] /\ saving'[x] = saving[x]
  <2>1. detector \in [Cameras -> Detector] /\ calm \in [Cameras -> BOOLEAN]
    BY DEF EventsInv, EdgesInv
  <2> QED BY <1>3, <2>1
<1> QED BY <1>3, <1>4, <1>5, <1>6, <1>7, EdgesKept

LEMMA SetSavingKeeps == ASSUME EventsInv, NEW c \in Cameras, SetSaving(c) PROVE EventsInv'
<1>1. PICK saves \in applying[c] :
        /\ saving' = [saving EXCEPT ![c] = saves]
        /\ calm' = [calm EXCEPT ![c] = @ /\ saving[c] = saves /\ detector[c].saves = saves]
  BY DEF SetSaving
<1>2. saves \in BOOLEAN
  BY DEF EventsInv, SettingsInv
<1>3. /\ applying' = [applying EXCEPT ![c] = {}]
      /\ UNCHANGED <<setting, detector, open, rows, queue, running, writer, quiet>>
  BY DEF SetSaving, Writer
<1>4. SettingsInv'
  BY <1>1, <1>2, <1>3 DEF EventsInv, SettingsInv
<1>5. detector' \in [Cameras -> Detector]
  BY <1>3 DEF EventsInv, EdgesInv
<1>6. calm' \in [Cameras -> BOOLEAN]
  BY <1>1 DEF EventsInv, EdgesInv
<1>7. \A x \in Cameras : calm'[x] => calm[x] /\ detector'[x] = detector[x] /\ saving'[x] = saving[x]
  <2>1. calm \in [Cameras -> BOOLEAN] /\ saving \in [Cameras -> BOOLEAN]
    BY DEF EventsInv, EdgesInv, SettingsInv
  <2> QED BY <1>1, <1>3, <2>1
<1> QED BY <1>3, <1>4, <1>5, <1>6, <1>7, EdgesKept

LEMMA EditKeeps ==
  ASSUME EventsInv, NEW c \in Cameras, NEW motion \in BOOLEAN, NEW saves \in BOOLEAN,
         Edit(c, motion, saves)
  PROVE  EventsInv'
<1>1. SettingsInv'
  BY DEF Edit, EventsInv, SettingsInv
<1> QED BY <1>1, EdgesKept DEF Edit, Writer, EventsInv, EdgesInv

LEMMA ShutdownKeeps ==
  ASSUME EventsInv, StopDecoders \/ CloseAll \/ Destroy PROVE EventsInv'
<1> USE EventsAssumption
<1>1. Off \in Detector /\ [c \in Cameras |-> Off] \in [Cameras -> Detector]
  <2>1. PostMotion \in 0 .. PostMotion
    OBVIOUS
  <2> QED BY <2>1 DEF Off, Detector
<1>2. SettingsInv'
  BY DEF StopDecoders, CloseAll, Destroy, EventsInv, SettingsInv
<1>3. EdgesInv'
  <2>1. detector' \in [Cameras -> Detector]
    BY <1>1 DEF StopDecoders, CloseAll, Destroy, EventsInv, EdgesInv
  <2>2. calm' = [c \in Cameras |-> FALSE] /\ quiet' = quiet
    BY DEF StopDecoders, CloseAll, Destroy
  <2> QED BY <2>1, <2>2 DEF EventsInv, EdgesInv, Agrees
<1>4. RowsInv'
  <2>1. CASE StopDecoders
    BY <2>1, RowsRest DEF StopDecoders, EventsInv
  <2>2. CASE Destroy
    <3>1. UNCHANGED <<open, rows, queue>> /\ running' = FALSE /\ writer' = Woken(writer)
      BY <2>2 DEF Destroy
    <3> QED BY <3>1, WokenKeeps DEF EventsInv, RowsInv
  <2>3. CASE CloseAll
    <3>1. UNCHANGED <<queue, running, writer>> /\ open' = [c \in Cameras |-> 0]
      BY <2>3 DEF CloseAll
    <3>2. Len(rows) \in Nat /\ DOMAIN rows = 1 .. Len(rows) /\ \A i \in 1 .. Len(rows) : rows[i] \in Row
      BY RowsFacts DEF EventsInv
    <3>3. rows' = [i \in 1 .. Len(rows) |->
                     IF \E c \in Cameras : open[c] = i THEN [rows[i] EXCEPT !.state = "closed"]
                     ELSE rows[i]]
      BY <2>3, <3>2 DEF CloseAll
    <3>4. ASSUME NEW i \in 1 .. Len(rows)
          PROVE  rows'[i] \in Row /\ rows'[i].carried = rows[i].carried
      <4> DEFINE r == [rows[i] EXCEPT !.state = "closed"]
      <4>1. rows[i] \in Row /\ r \in Row /\ r.carried = rows[i].carried
        BY <3>2 DEF Row
      <4>2. rows'[i] = r \/ rows'[i] = rows[i]
        BY <3>3
      <4> HIDE DEF r
      <4> QED BY <4>1, <4>2
    <3>5. rows' \in [1 .. Len(rows) -> Row]
      <4>1. rows' = [i \in 1 .. Len(rows) |-> rows'[i]]
        BY <3>3
      <4> QED BY <3>4, <4>1
    <3>6. open' \in [Cameras -> 0 .. Len(rows)]
      BY <3>1, <3>2
    <3> QED BY <3>1, <3>4, <3>5, <3>6, RowsTouched DEF EventsInv, RowsInv
  <2> QED BY <2>1, <2>2, <2>3
<1> QED BY <1>2, <1>3, <1>4 DEF EventsInv

(* The writer's thread.                                                    *)
LEMMA WorkKeeps == ASSUME EventsInv, Work PROVE EventsInv'
<1>1. SettingsInv' /\ EdgesInv'
  <2>1. UNCHANGED Still /\ UNCHANGED Wiring
    BY DEF Work, Look, Doze, Write
  <2>2. UNCHANGED <<setting, applying, saving, detector, open, quiet, calm>>
    BY <2>1 DEF Still, Wiring
  <2> QED BY <2>2 DEF EventsInv, SettingsInv, EdgesInv, Agrees
<1>2. open' = open
  BY DEF Work, Look, Doze, Write, Still
<1>3. /\ Len(rows) \in Nat /\ DOMAIN rows = 1 .. Len(rows) /\ \A i \in 1 .. Len(rows) : rows[i] \in Row
      /\ RowsInv
  BY RowsFacts DEF EventsInv
<1>4. CASE Look
  <2>1. UNCHANGED <<rows, running>>
    BY <1>4 DEF Look
  <2>2. CASE ~ running
    <3>1. queue' = queue /\ writer' \in Thread(Len(rows)) /\ writer'.at = "ended"
      BY <1>3, <1>4, <2>2 DEF Look, RowsInv, Thread
    <3>2. rows' \in [1 .. Len(rows) -> Row]
      BY <1>3, <2>1 DEF RowsInv
    <3>3. open' \in [Cameras -> 0 .. Len(rows)]
      BY <1>2, <1>3 DEF RowsInv
    <3> QED BY <1>1, <1>3, <2>1, <3>1, <3>2, <3>3, RowsTouched DEF EventsInv
  <2>3. CASE running /\ queue # <<>>
    <3>1. writer' = [at |-> "encoding", item |-> Head(queue)] /\ queue' = Tail(queue)
      BY <1>4, <2>3 DEF Look
    <3>2. /\ queue \in Seq(1 .. Len(rows)) /\ Ordered(queue) /\ Keeps(queue, rows)
          /\ DOMAIN rows \subseteq Int
      BY <1>3, <2>3 DEF RowsInv
    <3>3. /\ queue' \in Seq(1 .. Len(rows)) /\ Len(queue') <= Len(queue)
          /\ Head(queue) \in 1 .. Len(rows)
          /\ Ordered(queue') /\ Keeps(queue', rows)
      BY <1>3, <2>3, <3>1, <3>2, TailKeeps
    <3>4. writer' \in Thread(Len(rows)) /\ writer'.item # 0
      BY <1>3, <3>1, <3>3 DEF Thread
    <3>5. Len(queue') <= MaxPending
      BY <1>3, <3>2, <3>3, LenProperties, EventsAssumption DEF RowsInv
    <3>6. RowsInv'
      BY <1>2, <1>3, <2>1, <3>3, <3>4, <3>5 DEF RowsInv
    <3> QED BY <1>1, <3>6 DEF EventsInv
  <2>4. CASE running /\ queue = <<>>
    <3>1. queue' = queue /\ writer' \in Thread(Len(rows)) /\ writer'.at = "dozing"
      BY <1>3, <1>4, <2>4 DEF Look, RowsInv, Thread
    <3>2. rows' \in [1 .. Len(rows) -> Row]
      BY <1>3, <2>1 DEF RowsInv
    <3>3. open' \in [Cameras -> 0 .. Len(rows)]
      BY <1>2, <1>3 DEF RowsInv
    <3> QED BY <1>1, <1>3, <2>1, <3>1, <3>2, <3>3, RowsTouched DEF EventsInv
  <2> QED BY <1>3, <2>2, <2>3, <2>4 DEF RowsInv
<1>5. CASE Doze
  <2>1. UNCHANGED <<rows, queue, running>> /\ writer' \in Thread(Len(rows)) /\ writer'.at = "asleep"
    BY <1>3, <1>5 DEF Doze, RowsInv, Thread
  <2>2. rows' \in [1 .. Len(rows) -> Row]
    BY <1>3, <2>1 DEF RowsInv
  <2>3. open' \in [Cameras -> 0 .. Len(rows)]
    BY <1>2, <1>3 DEF RowsInv
  <2> QED BY <1>1, <1>3, <2>1, <2>2, <2>3, RowsTouched DEF EventsInv
<1>6. CASE Write
  <2>1. PICK ok \in Outcomes : rows' = [rows EXCEPT ![writer.item].picture = ok]
    BY <1>6 DEF Write
  <2>2. ok \in BOOLEAN /\ writer.item \in 1 .. Len(rows) /\ UNCHANGED <<queue, running>>
    <3>1. writer.item \in 0 .. Len(rows) /\ writer.item # 0
      BY <1>3, <1>6 DEF Write, RowsInv, Thread
    <3>2. ok \in BOOLEAN
      BY <2>1 DEF Outcomes
    <3> QED BY <1>3, <1>6, <3>1, <3>2 DEF Write
  <2> DEFINE r == [rows[writer.item] EXCEPT !.picture = ok]
  <2>3. r \in Row /\ r.carried = rows[writer.item].carried
    BY <1>3, <2>2 DEF Row
  <2>4. rows' = [rows EXCEPT ![writer.item] = r]
    BY <2>1
  <2>5. writer' \in Thread(Len(rows)) /\ writer'.at = "top"
    BY <1>3, <1>6 DEF Write, Thread
  <2> HIDE DEF r
  <2>6. rows' \in [1 .. Len(rows) -> Row] /\ \A i \in 1 .. Len(rows) : rows'[i].carried = rows[i].carried
    BY <1>3, <2>2, <2>3, <2>4
  <2>7. open' \in [Cameras -> 0 .. Len(rows)]
    BY <1>2, <1>3 DEF RowsInv
  <2> QED BY <1>1, <1>3, <2>2, <2>5, <2>6, <2>7, RowsTouched DEF EventsInv
<1> QED BY <1>4, <1>5, <1>6 DEF Work

(* A step of any of them, and what it may do to a camera's row.            *)
LEMMA EventsStepKeeps ==
  ASSUME EventsInv, EventsNext
  PROVE  EventsInv' /\ \A x \in Cameras : OpensWell(x)
<1>1. ASSUME \A x \in Cameras : ~ Opens(x), EventsInv'
      PROVE  EventsInv' /\ \A x \in Cameras : OpensWell(x)
  BY <1>1 DEF OpensWell
<1>2. CASE Pass
  BY <1>1, <1>2, PassKeeps DEF Pass, Opens
<1>3. CASE Work
  BY <1>1, <1>3, WorkKeeps DEF Work, Look, Doze, Write, Still, Opens
<1>4. CASE StopDecoders \/ CloseAll \/ Destroy
  BY <1>1, <1>4, ShutdownKeeps DEF StopDecoders, CloseAll, Destroy, Opens
<1>5. ASSUME NEW c \in Cameras, NEW fires \in BOOLEAN, Frame(c, fires)
      PROVE  EventsInv' /\ \A x \in Cameras : OpensWell(x)
  BY <1>5, FrameKeeps
<1>6. ASSUME NEW c \in Cameras, NEW motion \in BOOLEAN, NEW saves \in BOOLEAN, Edit(c, motion, saves)
      PROVE  EventsInv' /\ \A x \in Cameras : OpensWell(x)
  BY <1>1, <1>6, EditKeeps DEF Edit, Opens
<1>7. ASSUME NEW c \in Cameras, NEW rebuilt \in BOOLEAN, Apply(c, rebuilt)
      PROVE  EventsInv' /\ \A x \in Cameras : OpensWell(x)
  BY <1>1, <1>7, ApplyKeeps DEF Apply, Opens
<1>8. ASSUME NEW c \in Cameras, SetSaving(c)
      PROVE  EventsInv' /\ \A x \in Cameras : OpensWell(x)
  BY <1>1, <1>8, SetSavingKeeps DEF SetSaving, Opens
<1> QED BY <1>2, <1>3, <1>4, <1>5, <1>6, <1>7, <1>8 DEF EventsNext

LEMMA EventsStutter == EventsInv /\ UNCHANGED eventVars => EventsInv'
<1> SUFFICES ASSUME EventsInv, UNCHANGED eventVars PROVE EventsInv'
  OBVIOUS
<1>1. SettingsInv'
  BY DEF eventVars, EventsInv, SettingsInv
<1>2. EdgesInv'
  BY DEF eventVars, EventsInv, EdgesInv, Agrees
<1>3. RowsInv'
  BY RowsRest DEF eventVars, EventsInv
<1> QED BY <1>1, <1>2, <1>3 DEF EventsInv

THEOREM EventsInductive == EventsSpec => []EventsInv
<1>1. EventsInv /\ [EventsNext]_eventVars => EventsInv'
  BY EventsStepKeeps, EventsStutter
<1> QED BY <1>1, EventsInitOK, PTL DEF EventsSpec

(* The cameras' events, their rows and the writer's queue keep their types *)
(* and the queue its bound, whatever is edited, rebuilt or shut down.      *)
THEOREM EventsTypeCorrect == EventsSpec => []EventsTypeOK
<1>1. EventsInv => EventsTypeOK
  BY DEF EventsInv, SettingsInv, EdgesInv, RowsInv, EventsTypeOK, Row, Detector, Thread
<1> QED BY <1>1, EventsInductive, PTL

(* Of the events that carry a picture, the writer's queue drops only older *)
(* ones than those it keeps (MotionSnapshotWriter::capture).               *)
THEOREM EventsNewestIsKept == EventsSpec => []NewestIsKept
<1>1. EventsInv => NewestIsKept
  BY DEF EventsInv, RowsInv, NewestIsKept, Keeps
<1> QED BY <1>1, EventsInductive, PTL

(* A camera that was left alone opens a new row only when the hold of the  *)
(* last event is over: flickering movement stays one event.                *)
THEOREM EventsAreApartAlways == EventsSpec => EventsAreApart
<1>1. EventsInv /\ [EventsNext]_eventVars
      => [\A c \in Cameras : Opens(c) /\ calm[c] => quiet[c] = PostMotion]_eventVars
  BY EventsStepKeeps DEF OpensWell
<1> QED BY <1>1, EventsInductive, PTL DEF EventsSpec, EventsAreApart

(* The frame that opens such a camera's row carries the row's picture, so  *)
(* the detector's edge and the recorder's are the same (AiRuntime).        *)
THEOREM EventsCalmEdgesAgree == EventsSpec => CalmEdgesAgree
<1>1. EventsInv /\ [EventsNext]_eventVars
      => [\A c \in Cameras : Opens(c) /\ calm[c] => rows'[open'[c]].carried]_eventVars
  BY EventsStepKeeps DEF OpensWell
<1> QED BY <1>1, EventsInductive, PTL DEF EventsSpec, CalmEdgesAgree

-----------------------------------------------------------------------------
(* Rows that are open.                                                     *)
LEMMA OpenRowsKept ==
  ASSUME OpenIsKnown, NEW m \in Nat, DOMAIN rows = 1 .. m, DOMAIN rows' = 1 .. m, open' = open,
         \A i \in 1 .. m : rows'[i].state = rows[i].state /\ rows'[i].cam = rows[i].cam
  PROVE  OpenIsKnown'
BY DEF OpenIsKnown

LEMMA OpenRowsInsert ==
  ASSUME RowsInv, OpenIsKnown, NEW c \in Cameras, open[c] = 0, NEW carried \in BOOLEAN,
         NEW stored \in BOOLEAN, Insert(c, carried, stored)
  PROVE  OpenIsKnown'
<1> DEFINE n == Len(rows)
           row == [cam |-> c, state |-> "open", carried |-> carried, picture |-> FALSE]
<1>1. n \in Nat /\ DOMAIN rows = 1 .. n /\ row \in Row /\ row.cam = c
  BY RowsFacts DEF Row
<1>2. CASE ~ stored
  BY <1>2 DEF Insert, OpenIsKnown
<1>3. CASE stored
  <2>1. rows' = Append(rows, row) /\ open' = [open EXCEPT ![c] = n + 1]
    BY <1>3 DEF Insert
  <2> HIDE DEF row
  <2>2. /\ DOMAIN rows' = 1 .. n + 1 /\ rows'[n + 1] = row
        /\ \A i \in 1 .. n : rows'[i] = rows[i] /\ rows[i].cam \in Cameras
    BY <1>1, <2>1, RowsFacts, AppendProperties, LenProperties DEF RowsInv, Row
  <2>3. /\ open'[c] = n + 1 /\ \A x \in Cameras : x # c => open'[x] = open[x]
    BY <2>1 DEF RowsInv
  <2> SUFFICES ASSUME NEW i \in 1 .. n + 1, rows'[i].state = "open" PROVE open'[rows'[i].cam] = i
    BY <2>2 DEF OpenIsKnown
  <2>4. CASE i = n + 1
    BY <1>1, <2>2, <2>3, <2>4
  <2>5. CASE i # n + 1
    <3>1. i \in 1 .. n /\ open[rows[i].cam] = i
      BY <1>1, <2>2, <2>5 DEF OpenIsKnown
    <3>2. rows[i].cam # c
      BY <1>1, <3>1
    <3> QED BY <2>2, <2>3, <3>1, <3>2
  <2> QED BY <2>4, <2>5
<1> QED BY <1>2, <1>3

LEMMA OpenRowsClose ==
  ASSUME RowsInv, OpenIsKnown, NEW c \in Cameras, open[c] # 0, NEW stored \in BOOLEAN, Close(c, stored)
  PROVE  OpenIsKnown'
<1> DEFINE n == Len(rows)
           state == IF stored THEN "closed" ELSE "lost"
           r == [rows[open[c]] EXCEPT !.state = state]
<1>1. n \in Nat /\ DOMAIN rows = 1 .. n /\ \A i \in 1 .. n : rows[i] \in Row
  BY RowsFacts
<1>2. open[c] \in 1 .. n /\ r.state # "open"
  BY <1>1 DEF RowsInv, Row
<1>3. rows' = [rows EXCEPT ![open[c]] = r] /\ open' = [open EXCEPT ![c] = 0]
  BY DEF Close
<1> HIDE DEF r
<1> SUFFICES ASSUME NEW i \in 1 .. n, rows'[i].state = "open" PROVE open'[rows'[i].cam] = i
  BY <1>1, <1>3 DEF OpenIsKnown
<1>4. i # open[c] /\ rows'[i] = rows[i]
  BY <1>1, <1>2, <1>3
<1>5. open[rows[i].cam] = i /\ rows[i].cam \in Cameras
  BY <1>1, <1>4 DEF OpenIsKnown, Row
<1> QED BY <1>3, <1>4, <1>5 DEF RowsInv

LEMMA OpenRowsStep == EventsInv /\ OpenIsKnown /\ [EventsNext]_eventVars => OpenIsKnown'
<1> SUFFICES ASSUME EventsInv, OpenIsKnown, [EventsNext]_eventVars PROVE OpenIsKnown'
  OBVIOUS
<1>1. /\ Len(rows) \in Nat /\ DOMAIN rows = 1 .. Len(rows) /\ \A i \in 1 .. Len(rows) : rows[i] \in Row
      /\ RowsInv
  BY RowsFacts DEF EventsInv
<1>2. ASSUME UNCHANGED <<rows, open>> PROVE OpenIsKnown'
  BY <1>2 DEF OpenIsKnown
<1>3. CASE UNCHANGED eventVars
  BY <1>2, <1>3 DEF eventVars
<1>4. CASE Pass \/ StopDecoders \/ Destroy
  BY <1>2, <1>4 DEF Pass, StopDecoders, Destroy
<1>5. CASE Look \/ Doze
  BY <1>2, <1>5 DEF Look, Doze, Still
<1>6. CASE Write
  <2>1. PICK ok \in Outcomes : rows' = [rows EXCEPT ![writer.item].picture = ok]
    BY <1>6 DEF Write
  <2> DEFINE r == [rows[writer.item] EXCEPT !.picture = ok]
  <2>2. writer.item \in 1 .. Len(rows)
    <3>1. writer.item \in 0 .. Len(rows) /\ writer.item # 0
      BY <1>1, <1>6 DEF Write, RowsInv, Thread
    <3> QED BY <1>1, <3>1
  <2>3. r.state = rows[writer.item].state /\ r.cam = rows[writer.item].cam
    BY <1>1, <2>2 DEF Row
  <2>4. rows' = [rows EXCEPT ![writer.item] = r] /\ open' = open
    BY <1>6, <2>1 DEF Write, Still
  <2> HIDE DEF r
  <2> QED BY <1>1, <2>2, <2>3, <2>4, OpenRowsKept
<1>7. CASE CloseAll
  <2>1. rows' = [i \in 1 .. Len(rows) |->
                   IF \E c \in Cameras : open[c] = i THEN [rows[i] EXCEPT !.state = "closed"]
                   ELSE rows[i]]
    BY <1>1, <1>7 DEF CloseAll
  <2>2. ASSUME NEW i \in 1 .. Len(rows) PROVE rows'[i].state # "open"
    <3> DEFINE r == [rows[i] EXCEPT !.state = "closed"]
    <3>1. r.state = "closed" /\ rows[i].cam \in Cameras
      BY <1>1 DEF Row
    <3>2. CASE \E c \in Cameras : open[c] = i
      <4>1. rows'[i] = r
        BY <2>1, <3>2
      <4> HIDE DEF r
      <4> QED BY <3>1, <4>1
    <3>3. CASE ~ \E c \in Cameras : open[c] = i
      <4>1. rows'[i] = rows[i]
        BY <2>1, <3>3
      <4> QED BY <1>1, <3>1, <3>3, <4>1 DEF OpenIsKnown
    <3> QED BY <3>2, <3>3
  <2> QED BY <2>1, <2>2 DEF OpenIsKnown
<1>8. ASSUME NEW c \in Cameras, NEW fires \in BOOLEAN, Frame(c, fires)
      PROVE  OpenIsKnown'
  <2> DEFINE since == IF fires THEN 0 ELSE detector[c].since
             triggered == fires \/ StillHeld(since)
             carried == triggered /\ Carries(detector[c])
  <2>1. PICK stored \in Outcomes : Observe(c, triggered, carried, stored)
    BY <1>8 DEF Frame
  <2>2. stored \in BOOLEAN /\ carried \in BOOLEAN
    BY <2>1 DEF Outcomes, StillHeld
  <2> HIDE DEF triggered, carried
  <2>3. CASE saving[c] /\ triggered /\ open[c] = 0
    BY <1>1, <2>1, <2>2, <2>3, OpenRowsInsert DEF Observe
  <2>4. CASE saving[c] /\ ~ triggered /\ open[c] # 0
    BY <1>1, <2>1, <2>2, <2>4, OpenRowsClose DEF Observe
  <2>5. CASE ~ (saving[c] /\ triggered /\ open[c] = 0) /\ ~ (saving[c] /\ ~ triggered /\ open[c] # 0)
    BY <1>2, <2>1, <2>5 DEF Observe
  <2> QED BY <2>3, <2>4, <2>5
<1>9. ASSUME NEW c \in Cameras,
             \/ \E motion, saves \in BOOLEAN : Edit(c, motion, saves)
             \/ \E rebuilt \in BOOLEAN : Apply(c, rebuilt)
             \/ SetSaving(c)
      PROVE  OpenIsKnown'
  BY <1>2, <1>9 DEF Edit, Apply, SetSaving
<1> QED BY <1>3, <1>4, <1>5, <1>6, <1>7, <1>8, <1>9 DEF EventsNext, Work

(* No camera has an open row that the recorder forgot: each is the one in  *)
(* m_open, which the next edge or closeAll() will close.                   *)
THEOREM EventsOpenIsKnown == EventsSpec => []OpenIsKnown
<1>1. EventsInit => OpenIsKnown
  BY DEF EventsInit, OpenIsKnown
<1> QED BY <1>1, OpenRowsStep, EventsInductive, PTL DEF EventsSpec
=============================================================================
