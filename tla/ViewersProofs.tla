---------------------------- MODULE ViewersProofs ----------------------------
(***************************************************************************)
(* Sessions of any number, opened, lost and stopped in any order: one      *)
(* thread stops each, readers go before what they read, and nothing        *)
(* outlives a session.  The invariant counts the list among those who may  *)
(* stop a session: a session asked for is being opened, or has at most one *)
(* such owner, and one that has none has no part left running.             *)
(***************************************************************************)
EXTENDS Viewers, SequenceTheorems, TLAPS

Openings == {"no", "transcode", "build", "negotiate", "attach", "list", "undo"}
Parted == {"end", "transcode", "playback"}
Names == Parted \cup {"camera"}
Owning == Actors \cup {"list"}

Pieces(k) == CASE k = "whepPlayback" -> {"end", "playback"}
               [] k = "moqPlayback" -> {"end", "transcode", "playback"}
               [] OTHER -> {"end"}

(* What part p of a session of kind k reads.                               *)
From(k, p) ==
  LET chain == Append(Chain(k), "camera")
  IN  chain[1 + CHOOSE i \in DOMAIN chain : chain[i] = p]

Owners(s) == {o \in Owning : IF o = "list" THEN s \in listed ELSE s \in hands[o]}

(* What a request has started by each step of opening.                     *)
Started(k, o) ==
  CASE o = "transcode" -> {"playback"}
    [] o = "build" -> Pieces(k) \ {"end"}
    [] o \in {"negotiate", "attach", "list"} -> Pieces(k)
    [] OTHER -> {}

(* A session of kind k, opened as far as o, with parts u running, of which *)
(* r read, and owners w.                                                   *)
Sound(k, o, u, r, w) ==
  /\ k = "none" => o = "no" /\ u = {} /\ w = {}
  /\ k # "none" /\ o = "no" /\ w = {} => u = {}
  /\ o # "no" => w = {}
  /\ \A a, b \in w : a = b
  /\ o = "transcode" => k = "moqPlayback"
  /\ Started(k, o) \subseteq u
  /\ u \subseteq Pieces(k) /\ r \subseteq u /\ "playback" \notin r
  /\ \A p \in r : From(k, p) \in u \cup {"camera"}

SoundNow(s) == Sound(kind[s], opening[s], up[s], reading[s], Owners(s))

CallKinds == [session : Sessions, part : {"end", "transcode"}]

(* A private source that is being waited for has not stopped.              *)
CallsRun ==
  \A c \in calls :
    kind[c.session] # "none" /\ From(kind[c.session], c.part) \in up[c.session] \cup {"camera"}

Typed ==
  /\ kind \in [Sessions -> Kinds \cup {"none"}] /\ opening \in [Sessions -> Openings]
  /\ up \in [Sessions -> SUBSET Parted] /\ reading \in [Sessions -> SUBSET Parted]
  /\ listed \subseteq Sessions /\ hands \in [Actors -> SUBSET Sessions]
  /\ calls \subseteq CallKinds

VIInv == Typed /\ CallsRun /\ \A s \in Sessions : SoundNow(s)

-----------------------------------------------------------------------------
LEMMA KindsAre ==
  \A k \in Kinds : k \in {"whepLive", "whepPlayback", "moqLive", "moqPlayback"} /\ k # "none"
BY ViewersAssumption DEF Whep, Moq

LEMMA Chains ==
  /\ Chain("whepPlayback") = <<"end", "playback">>
  /\ Chain("moqPlayback") = <<"end", "transcode", "playback">>
  /\ \A k : k \notin {"whepPlayback", "moqPlayback"} => Chain(k) = <<"end">>
<1>1. Chain("whepPlayback") = <<"end", "playback">>
  BY DEF Chain
<1>2. Chain("moqPlayback") = <<"end", "transcode", "playback">>
  BY DEF Chain
<1>3. \A k : k \notin {"whepPlayback", "moqPlayback"} => Chain(k) = <<"end">>
  BY DEF Chain
<1> QED
  BY <1>1, <1>2, <1>3

(* A part reads the next one of its chain, the last one the camera.        *)
LEMMA NextOf ==
  ASSUME NEW k, NEW i \in 1 .. Len(Chain(k)), Chain(k) \in Seq(Names),
         \A j \in 1 .. Len(Chain(k)) : Chain(k)[j] = Chain(k)[i] => j = i,
         Chain(k)[i] # "camera"
  PROVE  From(k, Chain(k)[i]) = IF i < Len(Chain(k)) THEN Chain(k)[i + 1] ELSE "camera"
<1> DEFINE d == Chain(k)
           c == Append(d, "camera")
<1>1. /\ Len(d) \in Nat /\ DOMAIN c = 1 .. Len(d) + 1
      /\ \A j \in 1 .. Len(d) : c[j] = d[j]
      /\ c[Len(d) + 1] = "camera"
  <2>1. "camera" \in Names
    BY DEF Names
  <2> QED
    BY <2>1, AppendProperties, LenProperties
<1> HIDE DEF c
<1>2. \A j \in DOMAIN c : c[j] = d[i] <=> j = i
  BY <1>1
<1>3. i \in DOMAIN c
  BY <1>1
<1>4. (CHOOSE j \in DOMAIN c : c[j] = d[i]) = i
  BY <1>2, <1>3
<1>5. c[1 + i] = IF i < Len(d) THEN d[i + 1] ELSE "camera"
  BY <1>1
<1> QED
  BY <1>4, <1>5 DEF From, c

LEMMA Reads ==
  /\ From("whepPlayback", "end") = "playback"
  /\ From("moqPlayback", "end") = "transcode"
  /\ From("moqPlayback", "transcode") = "playback"
  /\ \A k : k \notin {"whepPlayback", "moqPlayback"} => From(k, "end") = "camera"
<1>1. From("whepPlayback", "end") = "playback"
  <2>1. /\ Chain("whepPlayback") = <<"end", "playback">>
        /\ <<"end", "playback">> \in Seq(Names) /\ Len(<<"end", "playback">>) = 2
        /\ <<"end", "playback">>[1] = "end" /\ <<"end", "playback">>[2] = "playback"
    BY Chains DEF Names, Parted
  <2>2. /\ 1 \in 1 .. Len(Chain("whepPlayback"))
        /\ \A j \in 1 .. Len(Chain("whepPlayback")) :
             Chain("whepPlayback")[j] = Chain("whepPlayback")[1] => j = 1
    BY <2>1
  <2>3. From("whepPlayback", Chain("whepPlayback")[1]) = Chain("whepPlayback")[2]
    BY <2>1, <2>2, NextOf
  <2> QED
    BY <2>1, <2>3
<1>2. From("moqPlayback", "end") = "transcode" /\ From("moqPlayback", "transcode") = "playback"
  <2>1. /\ Chain("moqPlayback") = <<"end", "transcode", "playback">>
        /\ <<"end", "transcode", "playback">> \in Seq(Names)
        /\ Len(<<"end", "transcode", "playback">>) = 3
    BY Chains DEF Names, Parted
  <2>2. From("moqPlayback", Chain("moqPlayback")[1]) = Chain("moqPlayback")[2]
    BY <2>1, NextOf
  <2>3. From("moqPlayback", Chain("moqPlayback")[2]) = Chain("moqPlayback")[3]
    BY <2>1, NextOf
  <2> QED
    BY <2>1, <2>2, <2>3
<1>3. ASSUME NEW k, k \notin {"whepPlayback", "moqPlayback"} PROVE From(k, "end") = "camera"
  <2>1. Chain(k) = <<"end">> /\ <<"end">> \in Seq(Names) /\ Len(<<"end">>) = 1
    BY <1>3, Chains DEF Names, Parted
  <2> QED
    BY <2>1, NextOf
<1> QED
  BY <1>1, <1>2, <1>3

(* Stopping a part: nothing that runs reads it.                            *)
LEMMA StopsOne ==
  ASSUME VIInv, NEW s \in Sessions, kind[s] # "none", StopPart(s)
  PROVE  \E p \in up[s] :
           /\ up' = [up EXCEPT ![s] = @ \ {p}]
           /\ reading' = [reading EXCEPT ![s] = @ \ {p}]
           /\ Joined(s, p)
           /\ \A q \in up[s] \ {"playback"} : From(kind[s], q) # p
<1> DEFINE k == kind[s]
           order == Chain(k)
           u == up[s]
           p == NextToStop(s)
<1>1. k \in Kinds /\ u \subseteq Pieces(k) /\ u # {}
  BY DEF VIInv, Typed, SoundNow, Sound, StopPart
<1>2. /\ up' = [up EXCEPT ![s] = @ \ {p}] /\ Joined(s, p)
      /\ reading' = [reading EXCEPT ![s] = @ \ {p}]
  BY DEF StopPart, Detached
<1>3. p \in u /\ \A q \in u \ {"playback"} : From(k, q) # p
  <2> DEFINE First(i) == order[i] \in u /\ \A j \in 1 .. i - 1 : order[j] \notin u
  <2>1. \E i \in DOMAIN order : First(i)
    <3>1. CASE k = "whepPlayback"
      <4>1. order = <<"end", "playback">> /\ u \subseteq {"end", "playback"}
        BY <1>1, <3>1, Chains DEF Pieces
      <4>2. DOMAIN order = 1 .. 2 /\ order[1] = "end" /\ order[2] = "playback"
        BY <4>1
      <4>3. CASE "end" \in u
        BY <4>2, <4>3
      <4>4. CASE "end" \notin u
        <5>1. First(2)
          BY <1>1, <4>1, <4>2, <4>4
        <5> QED
          BY <4>2, <5>1
      <4> QED
        BY <4>3, <4>4
    <3>2. CASE k = "moqPlayback"
      <4>1. order = <<"end", "transcode", "playback">> /\ u \subseteq {"end", "transcode", "playback"}
        BY <1>1, <3>2, Chains DEF Pieces
      <4>2. /\ DOMAIN order = 1 .. 3
            /\ order[1] = "end" /\ order[2] = "transcode" /\ order[3] = "playback"
        BY <4>1
      <4>3. CASE "end" \in u
        BY <4>2, <4>3
      <4>4. CASE "end" \notin u /\ "transcode" \in u
        <5>1. First(2)
          BY <4>2, <4>4
        <5> QED
          BY <4>2, <5>1
      <4>5. CASE "end" \notin u /\ "transcode" \notin u
        <5>1. First(3)
          <6>1. "playback" \in u
            BY <1>1, <4>1, <4>5
          <6>2. \A j \in 1 .. 3 - 1 : j = 1 \/ j = 2
            OBVIOUS
          <6> QED
            BY <4>2, <4>5, <6>1, <6>2
        <5> QED
          BY <4>2, <5>1
      <4> QED
        BY <4>3, <4>4, <4>5
    <3>3. CASE k \notin {"whepPlayback", "moqPlayback"}
      <4>1. order = <<"end">> /\ u \subseteq {"end"}
        BY <1>1, <3>3, Chains DEF Pieces
      <4>2. DOMAIN order = 1 .. 1 /\ order[1] = "end"
        BY <4>1
      <4> QED
        BY <1>1, <4>1, <4>2
    <3> QED
      BY <3>1, <3>2, <3>3
  <2>2. PICK i \in DOMAIN order : p = order[i] /\ First(i)
    <3>1. p = order[CHOOSE i \in DOMAIN order : First(i)]
      BY DEF NextToStop, StopOrder
    <3> QED
      BY <2>1, <3>1
  <2>3. ASSUME NEW q \in u \ {"playback"}, From(k, q) = p PROVE FALSE
    <3>1. CASE k = "whepPlayback"
      <4>1. order = <<"end", "playback">> /\ q = "end"
        BY <1>1, <2>3, <3>1, Chains DEF Pieces
      <4>2. /\ DOMAIN order = 1 .. 2 /\ order[1] = "end" /\ order[2] = "playback"
            /\ order[i] = "playback"
        BY <2>2, <2>3, <3>1, <4>1, Reads
      <4> QED
        BY <2>2, <4>1, <4>2
    <3>2. CASE k = "moqPlayback"
      <4>1. order = <<"end", "transcode", "playback">> /\ q \in {"end", "transcode"}
        BY <1>1, <2>3, <3>2, Chains DEF Pieces
      <4>2. /\ DOMAIN order = 1 .. 3
            /\ order[1] = "end" /\ order[2] = "transcode" /\ order[3] = "playback"
        BY <4>1
      <4>3. CASE q = "end"
        <5>1. i = 2
          BY <2>2, <2>3, <3>2, <4>2, <4>3, Reads
        <5> QED
          BY <2>2, <4>2, <4>3, <5>1
      <4>4. CASE q = "transcode"
        <5>1. i = 3
          BY <2>2, <2>3, <3>2, <4>2, <4>4, Reads
        <5> QED
          BY <2>2, <4>2, <4>4, <5>1
      <4> QED
        BY <4>1, <4>3, <4>4
    <3>3. CASE k \notin {"whepPlayback", "moqPlayback"}
      <4>1. u \subseteq {"end"} /\ q = "end"
        BY <1>1, <2>3, <3>3 DEF Pieces
      <4> QED
        BY <1>1, <2>2, <2>3, <3>3, <4>1, Reads
    <3> QED
      BY <3>1, <3>2, <3>3
  <2> QED
    BY <2>2, <2>3
<1> QED
  BY <1>2, <1>3

-----------------------------------------------------------------------------
(* A session none of whose own state moves stays sound.                    *)
Same(t) ==
  /\ kind'[t] = kind[t] /\ opening'[t] = opening[t]
  /\ up'[t] = up[t] /\ reading'[t] = reading[t]

LEMMA SameSound ==
  ASSUME NEW t, SoundNow(t), Same(t), Owners(t)' = Owners(t)
  PROVE  SoundNow(t)'
BY DEF SoundNow, Same

LEMMA OwnersStay ==
  ASSUME NEW t, listed' = listed, hands' = hands
  PROVE  Owners(t)' = Owners(t)
BY DEF Owners

(* Threads that touch nothing of a session's life; a call that returns.    *)
LEMMA QuietKeeps ==
  ASSUME VIInv, UNCHANGED life, calls' \subseteq calls
  PROVE  VIInv'
<1>1. /\ kind' = kind /\ opening' = opening /\ up' = up /\ reading' = reading
      /\ listed' = listed /\ hands' = hands
  BY DEF life
<1>2. Typed'
  BY <1>1 DEF VIInv, Typed
<1>3. CallsRun'
  BY <1>1 DEF VIInv, CallsRun
<1>4. ASSUME NEW t \in Sessions PROVE SoundNow(t)'
  BY <1>1, SameSound, OwnersStay DEF VIInv, Same
<1> QED
  BY <1>2, <1>3, <1>4 DEF VIInv

LEMMA CallKeeps ==
  ASSUME VIInv, NEW s \in Sessions, NEW p \in {"end", "transcode"}, Call(s, p)
  PROVE  VIInv'
<1>1. /\ kind' = kind /\ opening' = opening /\ up' = up /\ reading' = reading
      /\ listed' = listed /\ hands' = hands
      /\ calls' = calls \cup {[session |-> s, part |-> p]}
      /\ p \in reading[s]
  BY DEF Call, life
<1>2. Typed'
  <2>1. [session |-> s, part |-> p] \in CallKinds
    BY DEF CallKinds
  <2> QED
    BY <1>1, <2>1 DEF VIInv, Typed
<1>3. kind[s] # "none" /\ From(kind[s], p) \in up[s] \cup {"camera"}
  BY <1>1 DEF VIInv, SoundNow, Sound
<1>4. CallsRun'
  BY <1>1, <1>3 DEF VIInv, CallsRun
<1>5. ASSUME NEW t \in Sessions PROVE SoundNow(t)'
  BY <1>1, SameSound, OwnersStay DEF VIInv, Same
<1> QED
  BY <1>2, <1>4, <1>5 DEF VIInv

(* Sessions are moved from the list into one actor's hands, at once.       *)
LEMMA TakeKeeps ==
  ASSUME VIInv, NEW a \in Actors, NEW S \in SUBSET listed, Take(a, S),
         UNCHANGED <<kind, opening, up, reading, calls>>
  PROVE  VIInv'
<1>1. /\ kind' = kind /\ opening' = opening /\ up' = up /\ reading' = reading
      /\ calls' = calls /\ listed' = listed \ S
      /\ hands \in [Actors -> SUBSET Sessions] /\ listed \subseteq Sessions
      /\ hands' = [hands EXCEPT ![a] = @ \cup S]
  BY DEF Take, VIInv, Typed
<1>2. hands'[a] = hands[a] \cup S /\ \A b \in Actors \ {a} : hands'[b] = hands[b]
  BY <1>1
<1>3. Typed'
  BY <1>1, <1>2 DEF VIInv, Typed
<1>4. CallsRun'
  BY <1>1 DEF VIInv, CallsRun
<1>5. ASSUME NEW t \in Sessions PROVE SoundNow(t)'
  <2>1. CASE t \notin S
    <3>1. Owners(t)' = Owners(t)
      BY <1>1, <1>2, <2>1 DEF Owners, Owning, Actors
    <3> QED
      BY <1>1, <3>1, SameSound DEF VIInv, Same
  <2>2. CASE t \in S
    <3>1. "list" \in Owners(t)
      BY <2>2 DEF Owners, Owning
    <3>2. SoundNow(t)
      BY DEF VIInv
    <3>3. Owners(t) = {"list"}
      BY <3>1, <3>2 DEF SoundNow, Sound
    <3>4. \A b \in Actors : t \notin hands[b]
      BY <3>3 DEF Owners, Owning, Actors
    <3>5. Owners(t)' = {a}
      BY <1>1, <1>2, <2>2, <3>4 DEF Owners, Owning, Actors
    <3>6. opening[t] = "no" /\ kind[t] # "none"
      BY <3>1, <3>2 DEF SoundNow, Sound
    <3> QED
      BY <1>1, <3>2, <3>3, <3>5, <3>6 DEF SoundNow, Sound
  <2> QED
    BY <2>1, <2>2
<1> QED
  BY <1>3, <1>4, <1>5 DEF VIInv

(* A session in nobody's opening loses a part, or a request that failed    *)
(* takes back what it had started.                                         *)
LEMMA StopPartKeeps ==
  ASSUME VIInv, NEW s \in Sessions, StopPart(s), opening[s] \in {"no", "undo"},
         kind' = kind, opening' = opening, calls' = calls, listed' = listed, hands' = hands
  PROVE  VIInv'
<1>1. SoundNow(s) /\ kind[s] # "none"
  BY DEF VIInv, StopPart, SoundNow, Sound
<1>2. PICK p \in up[s] :
           /\ up' = [up EXCEPT ![s] = @ \ {p}]
           /\ reading' = [reading EXCEPT ![s] = @ \ {p}]
           /\ Joined(s, p)
           /\ \A q \in up[s] \ {"playback"} : From(kind[s], q) # p
  BY <1>1, StopsOne
<1>3. /\ up \in [Sessions -> SUBSET Parted] /\ reading \in [Sessions -> SUBSET Parted]
      /\ up'[s] = up[s] \ {p} /\ reading'[s] = reading[s] \ {p}
      /\ \A t \in Sessions \ {s} : up'[t] = up[t] /\ reading'[t] = reading[t]
  BY <1>2 DEF VIInv, Typed
<1>4. Typed'
  BY <1>2, <1>3 DEF VIInv, Typed
<1>5. CallsRun'
  <2> SUFFICES ASSUME NEW c \in calls
               PROVE  /\ kind[c.session] # "none"
                      /\ From(kind[c.session], c.part) \in up'[c.session] \cup {"camera"}
    BY DEF CallsRun
  <2>1. /\ kind[c.session] # "none" /\ c.session \in Sessions
        /\ From(kind[c.session], c.part) \in up[c.session] \cup {"camera"}
    BY DEF VIInv, CallsRun, Typed, CallKinds
  <2>2. c.session = s => From(kind[s], c.part) # p
    BY <1>2 DEF Joined, Upstream, From
  <2> QED
    BY <1>3, <2>1, <2>2
<1>6. ASSUME NEW t \in Sessions PROVE SoundNow(t)'
  <2>1. CASE t # s
    BY <1>3, <2>1, SameSound, OwnersStay DEF VIInv, Same
  <2>2. CASE t = s
    <3>1. Owners(s)' = Owners(s)
      BY OwnersStay
    <3>2. Started(kind[s], opening[s]) = {}
      BY DEF Started
    <3>3. \A q \in reading'[s] : From(kind[s], q) \in up'[s] \cup {"camera"}
      BY <1>1, <1>2, <1>3 DEF SoundNow, Sound
    <3> QED
      BY <1>1, <1>3, <2>2, <3>1, <3>2, <3>3 DEF SoundNow, Sound
  <2> QED
    BY <2>1, <2>2
<1> QED
  BY <1>4, <1>5, <1>6 DEF VIInv

(* A step of a request moves its own session only, and stops nothing.      *)
LEMMA OpeningKeeps ==
  ASSUME VIInv, NEW s \in Sessions, Typed',
         \A t \in Sessions \ {s} : Same(t),
         kind[s] = "none" \/ kind'[s] = kind[s], up[s] \subseteq up'[s],
         Sound(kind'[s], opening'[s], up'[s], reading'[s], Owners(s)),
         listed' = listed, hands' = hands, calls' = calls
  PROVE  VIInv'
<1>1. CallsRun'
  <2> SUFFICES ASSUME NEW c \in calls
               PROVE  /\ kind'[c.session] # "none"
                      /\ From(kind'[c.session], c.part) \in up'[c.session] \cup {"camera"}
    BY DEF CallsRun
  <2>1. /\ kind[c.session] # "none" /\ c.session \in Sessions
        /\ From(kind[c.session], c.part) \in up[c.session] \cup {"camera"}
    BY DEF VIInv, CallsRun, Typed, CallKinds
  <2>2. CASE c.session = s
    BY <2>1, <2>2
  <2>3. CASE c.session # s
    BY <2>1, <2>3 DEF Same
  <2> QED
    BY <2>2, <2>3
<1>2. ASSUME NEW t \in Sessions PROVE SoundNow(t)'
  <2>1. CASE t # s
    BY <2>1, SameSound, OwnersStay DEF VIInv
  <2>2. CASE t = s
    BY <2>2, OwnersStay DEF SoundNow
  <2> QED
    BY <2>1, <2>2
<1> QED
  BY <1>1, <1>2 DEF VIInv

LEMMA AskKeeps ==
  ASSUME VIInv, NEW s \in Sessions, NEW k \in Kinds, Ask(s, k)
  PROVE  VIInv'
<1> DEFINE u == IF k \in {"whepPlayback", "moqPlayback"} THEN {"playback"} ELSE {}
           o == IF k = "moqPlayback" THEN "transcode" ELSE "build"
<1>1. /\ kind' = [kind EXCEPT ![s] = k] /\ up' = [up EXCEPT ![s] = u]
      /\ opening' = [opening EXCEPT ![s] = o] /\ reading' = reading
      /\ listed' = listed /\ hands' = hands /\ calls' = calls /\ kind[s] = "none"
  BY DEF Ask, others
<1>2. u \subseteq Parted /\ o \in Openings
  BY DEF Parted, Openings
<1>3. SoundNow(s) /\ up[s] = {} /\ reading[s] = {} /\ Owners(s) = {}
  BY <1>1 DEF VIInv, SoundNow, Sound
<1>4. Sound(k, o, u, {}, {})
  BY KindsAre DEF Sound, Started, Pieces
<1> HIDE DEF u, o
<1>5. Typed'
  BY <1>1, <1>2 DEF VIInv, Typed
<1>6. /\ kind'[s] = k /\ up'[s] = u /\ opening'[s] = o /\ reading'[s] = {}
      /\ \A t \in Sessions \ {s} : Same(t)
  BY <1>1, <1>3 DEF VIInv, Typed, Same
<1> QED
  BY <1>1, <1>3, <1>4, <1>5, <1>6, OpeningKeeps

(* Of a session that is being opened, what the step before has left.       *)
LEMMA BeingOpened ==
  ASSUME VIInv, NEW s \in Sessions, opening[s] # "no"
  PROVE  /\ SoundNow(s) /\ kind[s] # "none" /\ Owners(s) = {}
         /\ Started(kind[s], opening[s]) \subseteq up[s] /\ up[s] \subseteq Pieces(kind[s])
         /\ reading[s] \subseteq up[s] /\ "playback" \notin reading[s]
         /\ \A p \in reading[s] : From(kind[s], p) \in up[s] \cup {"camera"}
BY DEF VIInv, SoundNow, Sound

LEMMA TranscodeKeeps ==
  ASSUME VIInv, NEW s \in Sessions, Transcode(s)
  PROVE  VIInv'
<1>1. /\ kind' = kind /\ listed' = listed /\ hands' = hands /\ calls' = calls
      /\ opening[s] = "transcode"
  BY DEF Transcode, others
<1>2. /\ kind[s] = "moqPlayback" /\ "playback" \in up[s]
      /\ \A p \in reading[s] : From(kind[s], p) \in up[s] \cup {"camera"}
      /\ SoundNow(s) /\ Owners(s) = {}
  BY <1>1, BeingOpened DEF SoundNow, Sound, Started
<1>3. CASE /\ up' = [up EXCEPT ![s] = @ \cup {"transcode"}]
           /\ reading' = [reading EXCEPT ![s] = @ \cup {"transcode"}]
           /\ opening' = [opening EXCEPT ![s] = "build"]
  <2>1. Typed'
    BY <1>1, <1>3 DEF VIInv, Typed, Parted, Openings
  <2>2. /\ kind'[s] = kind[s] /\ opening'[s] = "build" /\ up'[s] = up[s] \cup {"transcode"}
        /\ reading'[s] = reading[s] \cup {"transcode"}
        /\ \A t \in Sessions \ {s} : Same(t)
    BY <1>1, <1>3 DEF VIInv, Typed, Same
  <2>3. Sound(kind'[s], opening'[s], up'[s], reading'[s], Owners(s))
    BY <1>2, <2>2, Reads DEF SoundNow, Sound, Started, Pieces
  <2> QED
    BY <1>1, <2>1, <2>2, <2>3, OpeningKeeps
<1>4. CASE /\ opening' = [opening EXCEPT ![s] = "undo"]
           /\ UNCHANGED <<up, reading>>
  <2>1. Typed'
    BY <1>1, <1>4 DEF VIInv, Typed, Openings
  <2>2. /\ kind'[s] = kind[s] /\ opening'[s] = "undo" /\ up'[s] = up[s]
        /\ reading'[s] = reading[s]
        /\ \A t \in Sessions \ {s} : Same(t)
    BY <1>1, <1>4 DEF VIInv, Typed, Same
  <2>3. Sound(kind'[s], opening'[s], up'[s], reading'[s], Owners(s))
    BY <1>2, <2>2 DEF SoundNow, Sound, Started
  <2> QED
    BY <1>1, <2>1, <2>2, <2>3, OpeningKeeps
<1> QED
  BY <1>3, <1>4 DEF Transcode

(* Building and negotiating: an end that runs is what makes the next step  *)
(* possible, and a failure leaves all there is to be undone.               *)
LEMMA BuildKeeps ==
  ASSUME VIInv, NEW s \in Sessions, Build(s) \/ Negotiate(s)
  PROVE  VIInv'
<1>1. /\ kind' = kind /\ listed' = listed /\ hands' = hands /\ calls' = calls
      /\ reading' = reading /\ opening[s] \in {"build", "negotiate"}
  BY DEF Build, Negotiate, others
<1>2. \/ /\ opening[s] = "build" /\ up' = [up EXCEPT ![s] = @ \cup {"end"}]
         /\ opening' = [opening EXCEPT ![s] = "negotiate"]
      \/ /\ opening[s] = "negotiate" /\ up' = up
         /\ opening' = [opening EXCEPT ![s] = "attach"]
      \/ up' = up /\ opening' = [opening EXCEPT ![s] = "undo"]
  BY DEF Build, Negotiate
<1>3. /\ SoundNow(s) /\ kind[s] # "none" /\ Owners(s) = {}
      /\ Started(kind[s], opening[s]) \subseteq up[s]
  BY <1>1, BeingOpened
<1>4. Typed'
  BY <1>1, <1>2 DEF VIInv, Typed, Parted, Openings
<1>5. /\ kind'[s] = kind[s] /\ reading'[s] = reading[s]
      /\ \A t \in Sessions \ {s} : Same(t)
      /\ \/ /\ opening[s] = "build" /\ up'[s] = up[s] \cup {"end"} /\ opening'[s] = "negotiate"
         \/ opening[s] = "negotiate" /\ up'[s] = up[s] /\ opening'[s] = "attach"
         \/ up'[s] = up[s] /\ opening'[s] = "undo"
  BY <1>1, <1>2 DEF VIInv, Typed, Same
<1>6. Started(kind[s], opening'[s]) \subseteq up'[s]
  <2>1. Started(kind[s], "build") = Pieces(kind[s]) \ {"end"}
    BY DEF Started
  <2>2. Started(kind[s], "negotiate") = Pieces(kind[s]) /\ Started(kind[s], "attach") = Pieces(kind[s])
    BY DEF Started
  <2>3. Started(kind[s], "undo") = {}
    BY DEF Started
  <2> QED
    BY <1>3, <1>5, <2>1, <2>2, <2>3
<1>7. up'[s] \subseteq Pieces(kind[s])
  <2>1. "end" \in Pieces(kind[s])
    BY DEF Pieces
  <2> QED
    BY <1>3, <1>5, <2>1 DEF SoundNow, Sound
<1>8. up[s] \subseteq up'[s]
  BY <1>5
<1>9. Sound(kind'[s], opening'[s], up'[s], reading'[s], Owners(s))
  BY <1>3, <1>5, <1>6, <1>7, <1>8 DEF SoundNow, Sound
<1> QED
  BY <1>1, <1>4, <1>5, <1>8, <1>9, OpeningKeeps

(* The end reads its source, which every step so far has left running.     *)
LEMMA AttachKeeps ==
  ASSUME VIInv, NEW s \in Sessions, Attach(s)
  PROVE  VIInv'
<1>1. /\ kind' = kind /\ listed' = listed /\ hands' = hands /\ calls' = calls /\ up' = up
      /\ opening[s] = "attach" /\ opening' = [opening EXCEPT ![s] = "list"]
      /\ reading' = [reading EXCEPT ![s] = @ \cup {"end"}]
  BY DEF Attach, others
<1>2. /\ SoundNow(s) /\ kind[s] # "none" /\ Owners(s) = {} /\ Pieces(kind[s]) \subseteq up[s]
  BY <1>1, BeingOpened DEF Started
<1>3. Typed'
  BY <1>1 DEF VIInv, Typed, Parted, Openings
<1>4. /\ kind'[s] = kind[s] /\ opening'[s] = "list" /\ up'[s] = up[s]
      /\ reading'[s] = reading[s] \cup {"end"}
      /\ \A t \in Sessions \ {s} : Same(t)
  BY <1>1 DEF VIInv, Typed, Same
<1>5. From(kind[s], "end") \in Pieces(kind[s]) \cup {"camera"} /\ "end" \in Pieces(kind[s])
  <2>1. CASE kind[s] = "whepPlayback"
    BY <2>1, Reads DEF Pieces
  <2>2. CASE kind[s] = "moqPlayback"
    BY <2>2, Reads DEF Pieces
  <2>3. CASE kind[s] \notin {"whepPlayback", "moqPlayback"}
    BY <2>3, Reads DEF Pieces
  <2> QED
    BY <2>1, <2>2, <2>3
<1>6. Started(kind[s], "list") = Pieces(kind[s])
  BY DEF Started
<1>7. Sound(kind'[s], opening'[s], up'[s], reading'[s], Owners(s))
  BY <1>2, <1>4, <1>5, <1>6 DEF SoundNow, Sound
<1> QED
  BY <1>1, <1>3, <1>4, <1>7, OpeningKeeps

(* From here on the list owns the session.                                 *)
LEMMA ListKeeps ==
  ASSUME VIInv, NEW s \in Sessions, List(s)
  PROVE  VIInv'
<1>1. /\ kind' = kind /\ hands' = hands /\ calls' = calls /\ up' = up /\ reading' = reading
      /\ opening[s] = "list" /\ opening' = [opening EXCEPT ![s] = "no"]
      /\ listed' = listed \cup {s}
  BY DEF List, others
<1>2. SoundNow(s) /\ kind[s] # "none" /\ Owners(s) = {}
  BY <1>1, BeingOpened
<1>3. Typed'
  BY <1>1 DEF VIInv, Typed, Openings
<1>4. CallsRun'
  BY <1>1 DEF VIInv, CallsRun
<1>5. ASSUME NEW t \in Sessions PROVE SoundNow(t)'
  <2>1. opening'[s] = "no" /\ \A x \in Sessions \ {s} : opening'[x] = opening[x]
    BY <1>1 DEF VIInv, Typed
  <2>2. CASE t # s
    <3>1. Owners(t)' = Owners(t)
      BY <1>1, <2>2 DEF Owners
    <3> QED
      BY <1>1, <2>1, <2>2, <3>1, SameSound DEF VIInv, Same
  <2>3. CASE t = s
    <3>1. \A a \in Actors : s \notin hands[a]
      BY <1>2 DEF Owners, Owning, Actors
    <3>2. Owners(s)' = {"list"}
      BY <1>1, <3>1 DEF Owners, Owning, Actors
    <3>3. Started(kind[s], "no") = {}
      BY DEF Started
    <3> QED
      BY <1>1, <1>2, <2>1, <2>3, <3>2, <3>3 DEF SoundNow, Sound
  <2> QED
    BY <2>2, <2>3
<1> QED
  BY <1>3, <1>4, <1>5 DEF VIInv

LEMMA UndoKeeps ==
  ASSUME VIInv, NEW s \in Sessions, Undo(s)
  PROVE  VIInv'
<1>1. /\ kind' = kind /\ listed' = listed /\ hands' = hands /\ calls' = calls
      /\ opening[s] = "undo"
  BY DEF Undo, others
<1>2. CASE StopPart(s) /\ opening' = opening
  BY <1>1, <1>2, StopPartKeeps
<1>3. CASE /\ up[s] = {} /\ opening' = [opening EXCEPT ![s] = "no"]
           /\ up' = up /\ reading' = reading
  <2>1. SoundNow(s) /\ kind[s] # "none" /\ Owners(s) = {}
    BY <1>1, BeingOpened
  <2>2. Typed'
    BY <1>1, <1>3 DEF VIInv, Typed, Openings
  <2>3. /\ kind'[s] = kind[s] /\ opening'[s] = "no" /\ up'[s] = {} /\ reading'[s] = reading[s]
        /\ \A t \in Sessions \ {s} : Same(t)
    BY <1>1, <1>3 DEF VIInv, Typed, Same
  <2>4. Started(kind[s], "no") = {}
    BY DEF Started
  <2>5. Sound(kind'[s], opening'[s], up'[s], reading'[s], Owners(s))
    BY <1>3, <2>1, <2>3, <2>4 DEF SoundNow, Sound
  <2> QED
    BY <1>1, <1>3, <2>2, <2>3, <2>5, OpeningKeeps
<1> QED
  BY <1>2, <1>3 DEF Undo, Undone

-----------------------------------------------------------------------------
(* Whoever has taken a session stops its parts, and lets go of it after.   *)
LEMMA HandOnKeeps ==
  ASSUME VIInv, NEW a \in Actors, HandOn(a)
  PROVE  VIInv'
<1>1. PICK s \in hands[a] :
        /\ \/ up[s] = {} /\ hands' = [hands EXCEPT ![a] = @ \ {s}] /\ UNCHANGED Parts
           \/ StopPart(s) /\ hands' = hands
        /\ UNCHANGED <<kind, opening, calls, camera, listed, running>>
  BY DEF HandOn
<1>2. s \in Sessions /\ a \in Owners(s)
  BY DEF VIInv, Typed, Owners, Owning, Actors
<1>3. /\ SoundNow(s) /\ opening[s] = "no" /\ kind[s] # "none"
      /\ Owners(s) = {a}
  BY <1>2 DEF VIInv, SoundNow, Sound
<1>4. CASE StopPart(s) /\ hands' = hands
  BY <1>1, <1>2, <1>3, <1>4, StopPartKeeps
<1>5. CASE up[s] = {} /\ hands' = [hands EXCEPT ![a] = @ \ {s}] /\ UNCHANGED Parts
  <2>1. /\ kind' = kind /\ opening' = opening /\ up' = up /\ reading' = reading
        /\ calls' = calls /\ listed' = listed
    BY <1>1, <1>5 DEF Parts
  <2>2. hands'[a] = hands[a] \ {s} /\ \A b \in Actors \ {a} : hands'[b] = hands[b]
    BY <1>5 DEF VIInv, Typed
  <2>3. Typed'
    BY <1>5, <2>1, <2>2 DEF VIInv, Typed
  <2>4. CallsRun'
    BY <2>1 DEF VIInv, CallsRun
  <2>5. ASSUME NEW t \in Sessions PROVE SoundNow(t)'
    <3>1. CASE t # s
      <4>1. Owners(t)' = Owners(t)
        BY <2>1, <2>2, <3>1 DEF Owners, Owning, Actors
      <4> QED
        BY <2>1, <4>1, SameSound DEF VIInv, Same
    <3>2. CASE t = s
      <4>1. \A o \in Owning : o \in Owners(s)' => o \in Owners(s) /\ o # a
        BY <2>1, <2>2 DEF Owners, Owning, Actors
      <4>2. Owners(s)' = {}
        BY <1>3, <4>1 DEF Owners
      <4> QED
        BY <1>3, <1>5, <2>1, <3>2, <4>2 DEF SoundNow, Sound
    <3> QED
      BY <3>1, <3>2
  <2> QED
    BY <2>3, <2>4, <2>5 DEF VIInv
<1> QED
  BY <1>1, <1>4, <1>5

LEMMA VInitOK == Init => VIInv
<1> SUFFICES ASSUME Init PROVE VIInv
  OBVIOUS
<1>1. Typed
  BY DEF Init, Typed, Openings
<1>2. CallsRun
  BY DEF Init, CallsRun
<1>3. ASSUME NEW s \in Sessions PROVE SoundNow(s)
  <2>1. Owners(s) = {}
    BY DEF Init, Owners, Owning
  <2>2. Started("none", "no") = {}
    BY DEF Started
  <2> QED
    BY <2>1, <2>2 DEF Init, SoundNow, Sound
<1> QED
  BY <1>1, <1>2, <1>3 DEF VIInv

LEMMA VNextOK == VIInv /\ [Next]_vars => VIInv'
<1> SUFFICES ASSUME VIInv, [Next]_vars PROVE VIInv'
  OBVIOUS
<1>1. ASSUME NEW s \in Sessions, NEW k \in Kinds, Ask(s, k) PROVE VIInv'
  BY <1>1, AskKeeps
<1>2. ASSUME NEW s \in Sessions, Opening(s) PROVE VIInv'
  BY <1>2, TranscodeKeeps, BuildKeeps, AttachKeeps, ListKeeps, UndoKeeps DEF Opening
<1>3. ASSUME NEW s \in Sessions, Close(s) PROVE VIInv'
  BY <1>3, TakeKeeps DEF Close, Rest, Parts, Actors
<1>4. ASSUME NEW s \in Sessions,
             Break(s) \/ BreakTranscode(s) \/ Connect(s) \/ Leave(s) \/ ConnectTimeout(s)
      PROVE  VIInv'
  BY <1>4, QuietKeeps DEF Break, BreakTranscode, Connect, Leave, ConnectTimeout
<1>5. ASSUME NEW s \in Sessions, NEW p \in {"end", "transcode"}, Call(s, p) PROVE VIInv'
  BY <1>5, CallKeeps
<1>6. ASSUME NEW s \in Sessions, Return(s) PROVE VIInv'
  BY <1>6, QuietKeeps DEF Return
<1>7. CASE Handing
  BY <1>7, HandOnKeeps DEF Handing
<1>8. CASE Sweep
  BY <1>8, TakeKeeps DEF Sweep, Dead, Rest, Parts, Actors
<1>9. CASE Stop
  <2>1. /\ kind' = kind /\ opening' = opening /\ up' = up /\ reading' = reading
        /\ calls' = calls /\ listed' = listed /\ hands' = hands
    BY <1>9 DEF Stop, Rest, Parts
  <2>2. Typed'
    BY <2>1 DEF VIInv, Typed
  <2>3. CallsRun'
    BY <2>1 DEF VIInv, CallsRun
  <2>4. \A t \in Sessions : SoundNow(t)'
    BY <2>1, SameSound, OwnersStay DEF VIInv, Same
  <2> QED
    BY <2>2, <2>3, <2>4 DEF VIInv
<1>10. CASE TakeAll
  BY <1>10, TakeKeeps DEF TakeAll, Rest, Parts, Actors
<1>11. CASE CameraFails \/ UNCHANGED vars
  BY <1>11, QuietKeeps DEF CameraFails, life, vars
<1> QED
  BY <1>1, <1>2, <1>3, <1>4, <1>5, <1>6, <1>7, <1>8, <1>9, <1>10, <1>11 DEF Next

LEMMA ViewersInvariant == Spec => []VIInv
BY VInitOK, VNextOK, PTL DEF Spec

-----------------------------------------------------------------------------
(* close(), the sweeper, stop() and the request that failed never stop one *)
(* session from two threads, however many sessions and whatever order.     *)
THEOREM ViewersOneStops == Spec => []OneStops
<1>1. VIInv => OneStops
  <2> SUFFICES ASSUME VIInv PROVE OneStops
    OBVIOUS
  <2>1. \A s \in Sessions : SoundNow(s)
    BY DEF VIInv
  <2>2. /\ listed \subseteq Sessions /\ \A a \in Actors : hands[a] \subseteq Sessions
    BY DEF VIInv, Typed
  <2>3. \A s \in listed : "list" \in Owners(s)
    BY DEF Owners, Owning
  <2>4. \A a \in Actors : \A s \in hands[a] : a \in Owners(s)
    BY DEF Owners, Owning, Actors
  <2>5. ASSUME NEW s \in Sessions PROVE \A a, b \in Owners(s) : a = b /\ opening[s] = "no"
    BY <2>1, <2>5 DEF SoundNow, Sound
  <2>6. \A a \in Actors : a # "list"
    BY DEF Actors
  <2>7. \A a, b \in Actors : a # b => hands[a] \cap hands[b] = {}
    BY <2>2, <2>4, <2>5
  <2>8. \A a \in Actors : hands[a] \cap listed = {}
    BY <2>2, <2>3, <2>4, <2>5, <2>6
  <2>9. \A s \in Sessions : opening[s] # "no" => s \notin listed \cup UNION {hands[a] : a \in Actors}
    BY <2>3, <2>4, <2>5
  <2> QED
    BY <2>7, <2>8, <2>9 DEF OneStops
<1> QED
  BY <1>1, ViewersInvariant, PTL

(* Whatever reads a private source finds it running, at every step of      *)
(* every opening and every teardown.                                       *)
THEOREM ViewersReadersGoFirst == Spec => []ReadersGoFirst
<1>1. VIInv => ReadersGoFirst
  BY DEF VIInv, SoundNow, Sound, ReadersGoFirst, Upstream, From
<1> QED
  BY <1>1, ViewersInvariant, PTL

(* When the last reference to a session goes no part of it is left, and no *)
(* thread of a private source is still calling into it.                    *)
THEOREM ViewersNothingOutlives == Spec => []NothingOutlives
<1>1. VIInv => NothingOutlives
  <2> SUFFICES ASSUME VIInv PROVE NothingOutlives
    OBVIOUS
  <2>1. ASSUME NEW s \in Sessions, Freed(s) PROVE up[s] = {} /\ reading[s] = {}
    <3>1. kind[s] # "none" /\ opening[s] = "no"
      BY <2>1 DEF Freed
    <3>2. Owners(s) = {}
      BY <2>1 DEF Freed, Owners, Owning
    <3> QED
      BY <3>1, <3>2 DEF VIInv, SoundNow, Sound
  <2>2. FreedIsStopped
    BY <2>1 DEF FreedIsStopped
  <2>3. PrivateCallsEnd
    <3> SUFFICES ASSUME NEW c \in calls, Upstream(c.session, c.part) # "camera", Freed(c.session)
                 PROVE  FALSE
      BY DEF PrivateCallsEnd
    <3>1. /\ c.session \in Sessions
          /\ From(kind[c.session], c.part) \in up[c.session] \cup {"camera"}
      BY DEF VIInv, CallsRun, Typed, CallKinds
    <3> QED
      BY <2>1, <3>1 DEF Upstream, From
  <2> QED
    BY <2>2, <2>3 DEF NothingOutlives
<1> QED
  BY <1>1, ViewersInvariant, PTL
=============================================================================
