--------------------------- MODULE SourceRegistry ---------------------------
(***************************************************************************)
(* media/source/CameraSourceRegistry, with the life of the RtspEncodedSource*)
(* and TranscodedSource objects it hands out: the sources of one camera.   *)
(*                                                                         *)
(* Consumers (recorder, viewers, AI) acquire a source under the registry's *)
(* lock and attach a sink to it later, without it.  A sweeper thread looks *)
(* once a second, retires what nobody is attached to after a grace period, *)
(* and stops what it retired after it has released the lock.  An object    *)
(* lives as long as somebody points to it.                                 *)
(***************************************************************************)
EXTENDS Integers, Sequences

CONSTANTS Consumers,
          Streams,   (* (URL, codec) settings the camera may be given        *)
          Hevc,      (* those of them that are not H.264 already             *)
          Rates,     (* bitrate settings                                     *)
          Linger,    (* RtspSourceOptions.idleLinger, in sweeps              *)
          Patience,  (* sweeps that may pass between acquire and addSink     *)
          MaxRaw, MaxTr (* bound: sources and transcodes ever built          *)

ASSUME RegistryAssumption ==
  Hevc \subseteq Streams /\ {Linger, Patience, MaxRaw, MaxTr} \subseteq Nat

(* Whoever acquires a source attaches to it within the grace period.       *)
ASSUME AttachesInTime == Patience <= Linger

VARIABLES raws,     (* every RtspEncodedSource built: its stream and status  *)
          trs,      (* every TranscodedSource: its upstream, rate and status *)
          entry,    (* m_entries: the source and its IdleTimer               *)
          held,     (* m_transcodes: the transcode and its IdleTimer         *)
          sweeper,  (* asleep, sources (lock held), stopping or done         *)
          retiring, (* retiringTranscodes and retiringSources                *)
          pc,       (* idle, half (raw acquired), have (a source) or watching*)
          want,     (* what a consumer waiting for a transcode asked for     *)
          got,      (* the objects each consumer points to                   *)
          waited    (* sweeps since it acquired                              *)

vars == <<raws, trs, entry, held, sweeper, retiring, pc, want, got, waited>>

None == 0
NoIdle == -1
Nothing == [raw |-> None, tr |-> None]
AsItIs == -1
Ask == [stream : Streams, rate : Rates \cup {AsItIs}]
NoAsk == <<>>

Init ==
  /\ raws = <<>> /\ trs = <<>>
  /\ entry = [raw |-> None, idle |-> NoIdle] /\ held = [tr |-> None, idle |-> NoIdle]
  /\ sweeper = "asleep" /\ retiring = Nothing
  /\ pc = [c \in Consumers |-> "idle"] /\ want = [c \in Consumers |-> NoAsk]
  /\ got = [c \in Consumers |-> Nothing] /\ waited = [c \in Consumers |-> 0]

-----------------------------------------------------------------------------
(* An object is destroyed, and so stopped, with the last pointer to it.    *)
TrPointed(j) == \/ j \in {held.tr, retiring.tr}
                \/ \E c \in Consumers : got[c].tr = j
RawPointed(i) == \/ i \in {entry.raw, retiring.raw}
                 \/ \E c \in Consumers : got[c].raw = i
                 \/ \E j \in DOMAIN trs : trs[j].up = i /\ TrPointed(j)

(* alive(); a transcode is dead when either end is.                        *)
RawAlive(i) == raws[i].status = "playing"
TrAlive(j) == trs[j].status = "playing" /\ RawAlive(trs[j].up)

RawRuns(i) == RawAlive(i) /\ RawPointed(i)
TrRuns(j) == TrAlive(j) /\ TrPointed(j)

(* sinkCount() > 0.  A transcode is a sink of its upstream until stop(),   *)
(* also after it has failed.                                               *)
Attached(j) == trs[j].status \in {"playing", "failed"} /\ TrPointed(j)
RawUsed(i) == \/ \E c \in Consumers : pc[c] = "watching" /\ got[c].raw = i
              \/ \E j \in DOMAIN trs : trs[j].up = i /\ Attached(j)
TrUsed(j) == \E c \in Consumers : pc[c] = "watching" /\ got[c].tr = j

(* IdleTimer, counted in sweeps: the first idle sweep starts it.           *)
Restarted(idle, used) ==  \* mutant: the timer starts again at every sweep
  IF used THEN NoIdle ELSE 0
Counted(idle, used) == IF used THEN NoIdle ELSE idle + 1
Expired(idle, used) == ~ used /\ Counted(idle, used) >= Linger

Unlocked == sweeper \in {"asleep", "stopping"}

-----------------------------------------------------------------------------
ReusesWatched(ask) ==  \* mutant: one that nobody watches is not reused
  /\ entry.raw # None /\ RawAlive(entry.raw) /\ raws[entry.raw].stream = ask.stream
  /\ RawUsed(entry.raw)
Reuses(ask) ==
  entry.raw # None /\ RawAlive(entry.raw) /\ raws[entry.raw].stream = ask.stream

KeepsTimer(ask) == entry  \* mutant: reuse does not reset the timer
Revived(ask) == [entry EXCEPT !.idle = NoIdle]

(* Asked for H.264, acquireH264() goes on unless the camera sends it.      *)
NeedsTranscode(ask) == ask.rate # AsItIs /\ ask.stream \in Hevc

(* acquire() by consumer c.  It replaces a source that is dead or of       *)
(* another stream by a new one, and drops it, not stops it.                *)
Acquire(c) ==
  /\ pc[c] = "idle" /\ Unlocked
  /\ \E ask \in Ask :
       /\ want' = [want EXCEPT ![c] = IF NeedsTranscode(ask) THEN ask ELSE NoAsk]
       /\ \E i \in {entry.raw, Len(raws) + 1} :
            /\ IF Reuses(ask)
               THEN /\ i = entry.raw
                    /\ entry' = Revived(ask)
                    /\ UNCHANGED raws
               ELSE /\ i = Len(raws) + 1 /\ i <= MaxRaw
                    /\ raws' = Append(raws, [stream |-> ask.stream, status |-> "playing"])
                    /\ entry' = [raw |-> i, idle |-> NoIdle]
            /\ got' = [got EXCEPT ![c] = [raw |-> i, tr |-> None]]
       /\ pc' = [pc EXCEPT ![c] = IF NeedsTranscode(ask) THEN "half" ELSE "have"]
  /\ waited' = [waited EXCEPT ![c] = 0]
  /\ UNCHANGED <<trs, held, sweeper, retiring>>

(* The new source does not start; what it was to replace is gone already.  *)
AcquireFails(c) ==
  /\ pc[c] = "idle" /\ Unlocked
  /\ \E ask \in Ask :
       /\ ~ Reuses(ask)
       /\ Len(raws) < MaxRaw
       /\ raws' = Append(raws, [stream |-> ask.stream, status |-> "cleared"])
       /\ entry' = [raw |-> None, idle |-> NoIdle]
  /\ UNCHANGED <<trs, held, sweeper, retiring, pc, want, got, waited>>

Settles(c) == /\ want' = [want EXCEPT ![c] = NoAsk]
              /\ waited' = [waited EXCEPT ![c] = 0]
Leaves(c) == /\ pc' = [pc EXCEPT ![c] = "idle"]
             /\ got' = [got EXCEPT ![c] = Nothing] /\ Settles(c)

(* The second half of acquireH264(), under the lock taken again.           *)
TakesWatched(c) ==  \* mutant: one that nobody watches is not reused
  /\ held.tr # None /\ TrAlive(held.tr) /\ trs[held.tr].rate = want[c].rate
  /\ TrUsed(held.tr)
TakesHeld(c) ==
  held.tr # None /\ TrAlive(held.tr) /\ trs[held.tr].rate = want[c].rate

Built(c, status) == [up |-> got[c].raw, rate |-> want[c].rate, status |-> status]

Encode(c) ==
  /\ pc[c] = "half" /\ Unlocked
  /\ \E j \in {held.tr, Len(trs) + 1} :
       /\ IF TakesHeld(c)
          THEN /\ j = held.tr
               /\ held' = [held EXCEPT !.idle = NoIdle]
               /\ UNCHANGED trs
          ELSE /\ j = Len(trs) + 1 /\ j <= MaxTr
               /\ trs' = Append(trs, Built(c, "playing"))
               /\ held' = [tr |-> j, idle |-> NoIdle]
       /\ got' = [got EXCEPT ![c] = [raw |-> None, tr |-> j]]
  /\ pc' = [pc EXCEPT ![c] = "have"]
  /\ UNCHANGED <<raws, entry, sweeper, retiring, want, waited>>

EncodeFails(c) ==
  /\ pc[c] = "half" /\ Unlocked /\ ~ TakesHeld(c)
  /\ held' = [tr |-> None, idle |-> NoIdle]
  /\ trs' = IF Len(trs) < MaxTr THEN Append(trs, Built(c, "cleared")) ELSE trs
  /\ Leaves(c)
  /\ UNCHANGED <<raws, entry, sweeper, retiring>>

(* addSink(), then removeSink() and letting go.                            *)
Attach(c) ==
  /\ pc[c] = "have" /\ pc' = [pc EXCEPT ![c] = "watching"] /\ Settles(c)
  /\ UNCHANGED <<raws, trs, entry, held, sweeper, retiring, got>>

LetGo(c) ==
  /\ pc[c] \in {"have", "watching"} /\ Leaves(c)
  /\ UNCHANGED <<raws, trs, entry, held, sweeper, retiring>>

-----------------------------------------------------------------------------
(* A pipeline reports an error or ends, on its bus thread, at any time.    *)
Fail ==
  /\ \/ \E i \in DOMAIN raws : RawRuns(i) /\ raws' = [raws EXCEPT ![i].status = "failed"]
                                          /\ UNCHANGED trs
     \/ \E j \in DOMAIN trs : Attached(j) /\ trs' = [trs EXCEPT ![j].status = "failed"]
                                        /\ UNCHANGED raws
  /\ UNCHANGED <<entry, held, sweeper, retiring, pc, want, got, waited>>

(* sweep(): the transcodes, then the sources, under one lock.  alive() is  *)
(* read afresh for each, so a failure may fall between the two.            *)
Pending == {c \in Consumers : pc[c] \in {"half", "have"}}

SweepTranscodes ==
  /\ sweeper = "asleep" /\ \A c \in Pending : waited[c] < Patience
  /\ waited' = [c \in Consumers |-> IF c \in Pending THEN waited[c] + 1 ELSE waited[c]]
  /\ sweeper' = "sources"
  /\ LET j == held.tr
     IN  IF j # None /\ (~ TrAlive(j) \/ Expired(held.idle, TrUsed(j)))
         THEN /\ held' = [tr |-> None, idle |-> NoIdle]
              /\ retiring' = [retiring EXCEPT !.tr = j]
         ELSE /\ held' = IF j = None THEN held
                         ELSE [held EXCEPT !.idle = Counted(@, TrUsed(j))]
              /\ UNCHANGED retiring
  /\ UNCHANGED <<raws, trs, entry, pc, want, got>>

SweepSources ==
  /\ sweeper = "sources" /\ sweeper' = "stopping"
  /\ LET i == entry.raw
     IN  IF i # None /\ (~ RawAlive(i) \/ Expired(entry.idle, RawUsed(i)))
         THEN /\ entry' = [raw |-> None, idle |-> NoIdle]
              /\ retiring' = [retiring EXCEPT !.raw = i]
         ELSE /\ entry' = IF i = None THEN entry
                          ELSE [entry EXCEPT !.idle = Counted(@, RawUsed(i))]
              /\ UNCHANGED retiring
  /\ UNCHANGED <<raws, trs, held, pc, want, got, waited>>

(* stop() of a pipeline that plays, or clearing away one that has failed.  *)
Stopped(objects, n) ==
  IF n = None THEN objects
  ELSE [objects EXCEPT ![n].status =
          IF @ = "playing" THEN "stopped" ELSE IF @ = "failed" THEN "cleared" ELSE @]

(* The end of sweep(), without the lock.                                   *)
StopTranscode ==
  /\ sweeper = "stopping" /\ retiring.tr # None
  /\ trs' = Stopped(trs, retiring.tr) /\ retiring' = [retiring EXCEPT !.tr = None]
  /\ UNCHANGED <<raws, entry, held, sweeper, pc, want, got, waited>>

StopSource ==
  /\ sweeper = "stopping" /\ retiring.tr = None
  /\ raws' = Stopped(raws, retiring.raw)
  /\ retiring' = Nothing /\ sweeper' = "asleep"
  /\ UNCHANGED <<trs, entry, held, pc, want, got, waited>>

Sweep == SweepTranscodes \/ SweepSources \/ StopTranscode \/ StopSource

(* The destructor, when every consumer has gone.                           *)
Destroy ==
  /\ sweeper = "asleep" /\ \A c \in Consumers : pc[c] = "idle"
  /\ sweeper' = "done"
  /\ trs' = Stopped(trs, held.tr) /\ raws' = Stopped(raws, entry.raw)
  /\ entry' = [raw |-> None, idle |-> NoIdle] /\ held' = [tr |-> None, idle |-> NoIdle]
  /\ UNCHANGED <<retiring, pc, want, got, waited>>

Next == \/ Fail \/ Sweep \/ Destroy
        \/ \E c \in Consumers : \/ Acquire(c) \/ AcquireFails(c) \/ Encode(c)
                                \/ EncodeFails(c) \/ Attach(c) \/ LetGo(c)

Spec == Init /\ [][Next]_vars
FairSpec == Spec /\ WF_vars(Sweep)

-----------------------------------------------------------------------------
Raws == 1 .. MaxRaw
Trs == 1 .. MaxTr
Status == {"playing", "failed", "stopped", "cleared"}

TypeOK ==
  /\ raws \in Seq([stream : Streams, status : Status]) /\ Len(raws) <= MaxRaw
  /\ trs \in Seq([up : Raws, rate : Rates, status : Status]) /\ Len(trs) <= MaxTr
  /\ \A j \in DOMAIN trs : trs[j].up \in DOMAIN raws
  /\ entry \in [raw : {None} \cup DOMAIN raws, idle : NoIdle .. Linger - 1]
  /\ held \in [tr : {None} \cup DOMAIN trs, idle : NoIdle .. Linger - 1]
  /\ sweeper \in {"asleep", "sources", "stopping", "done"}
  /\ retiring \in [raw : {None} \cup Raws, tr : {None} \cup Trs]
  /\ pc \in [Consumers -> {"idle", "half", "have", "watching"}]
  /\ want \in [Consumers -> Ask \cup {NoAsk}] /\ waited \in [Consumers -> 0 .. Patience]
  /\ got \in [Consumers -> [raw : {None} \cup Raws, tr : {None} \cup Trs]]

(* A watched stream is never retired: the registry stops no source that    *)
(* somebody is attached to, nor a transcode whose upstream is sound, nor   *)
(* the upstream of a transcode that is.                                    *)
WatchedKeepsRunning ==
  \A c \in Consumers : pc[c] = "watching" =>
    LET i == got[c].raw
        j == got[c].tr
    IN  /\ i # None => raws[i].status # "stopped"
        /\ j # None /\ trs[j].status = "playing" => raws[trs[j].up].status # "stopped"
        /\ j # None /\ trs[j].status = "stopped" => ~ RawAlive(trs[j].up)

(* One connection to the camera: a second source of the same stream runs   *)
(* only while the first is being stopped, or after the camera was pointed  *)
(* elsewhere and back.                                                     *)
OneConnection ==
  \A i, k \in DOMAIN raws :
    i < k /\ RawRuns(i) /\ RawRuns(k) /\ raws[i].stream = raws[k].stream =>
      i = retiring.raw \/ \E m \in i .. k : raws[m].stream # raws[i].stream

(* The most expensive work is done once per camera, not once per viewer:   *)
(* two transcodes of one source at one rate run only while the first is    *)
(* being stopped, or after the rate was changed and changed back.          *)
OneTranscode ==
  \A j, k \in DOMAIN trs :
    j < k /\ TrRuns(j) /\ TrRuns(k) /\ trs[j].up = trs[k].up /\ trs[j].rate = trs[k].rate =>
      j = retiring.tr \/ \E m \in j .. k : trs[m].rate # trs[j].rate

(* A viewer gets the stream it asked for: a transcode left over from a     *)
(* camera that has been repointed is replaced rather than reused.          *)
GetsTheStreamAsked ==
  \A c \in Consumers : pc[c] = "have" /\ got[c].tr # None =>
    raws[trs[got[c].tr].up].stream = want[c].stream

(* The camera's session is given back: once everybody has gone, and nobody *)
(* returns, nothing is left running.                                       *)
NobodyThere == \A c \in Consumers : pc[c] = "idle"
NothingLeft == /\ \A i \in DOMAIN raws : ~ RawPointed(i)
               /\ \A j \in DOMAIN trs : ~ TrPointed(j)
UnwatchedIsRetired == NobodyThere ~> (NothingLeft \/ ~ NobodyThere)
=============================================================================
