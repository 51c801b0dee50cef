------------------------------ MODULE Playback ------------------------------
(***************************************************************************)
(* A recording played to one viewer: PlaybackSource's feeder thread, and   *)
(* the controls other threads give it.                                     *)
(*                                                                         *)
(* A control only writes what the feeder reads at its next step, under     *)
(* controlMutex; opening a file, pulling a frame and waiting until it is   *)
(* due happen without it, and any control may come in between.             *)
(***************************************************************************)
EXTENDS Integers, Sequences, FiniteSets

CONSTANTS
  Files,      \* recorded segments: [start, end, frames], frames a sequence of [at, key]
  Instants,   \* instants a client may seek to
  Rates,      \* speeds a client may ask for
  Window,     \* how far from an instant openAt() looks for segments
  Runback,    \* kSeekRunbackMs
  FastRate,   \* kKeyframeOnlyRate
  MaxCalls    \* bound on the controls given

None == -1
Closed == [start |-> None]  \* no file is open

ASSUME PlaybackAssumption ==
  /\ Instants \subseteq Nat /\ Rates \subseteq Nat /\ {Window, Runback, FastRate, MaxCalls} \subseteq Nat
  /\ Files \subseteq [start : Nat, end : Nat, frames : Seq([at : Nat, key : BOOLEAN])]
  /\ \A f \in Files : f.end > f.start /\ f.frames # <<>>

(* A file's frames follow one another, and its row covers them.            *)
ASSUME FramesAssumption ==
  \A f \in Files :
    /\ \A i \in DOMAIN f.frames : f.start + f.frames[i].at <= f.end
    /\ \A i, j \in DOMAIN f.frames : i < j => f.frames[i].at < f.frames[j].at

VARIABLES
  complete,   \* the files whose rows say Complete
  rate, paused, seekTo,  \* the controls
  running, ended, position,
  feeder,     \* the feeder thread: where it is, and its locals
  file,       \* the open segment and how far it was read, or Closed
  shown,      \* the frames delivered since a seek was taken
  asked, taken,  \* the last instant a client asked for, and the feeder took
  still,      \* frames delivered since the client paused
  ending,     \* seeks that have yet to clear ended
  calls

controls == <<rate, paused, seekTo>>
history == <<asked, taken, still>>
playVars == <<complete, controls, running, ended, position, feeder, file, shown, history, ending, calls>>

Frames(f) == {[file |-> f, n |-> n] : n \in DOMAIN f.frames}
Wall(x) == x.file.start + x.file.frames[x.n].at
IsKey(x) == x.file.frames[x.n].key

PlayInit ==
  /\ complete \in SUBSET Files
  /\ rate = 1 /\ paused = FALSE /\ seekTo \in Instants
  /\ running = TRUE /\ ended = FALSE /\ position = seekTo
  /\ feeder = [at |-> "top", rate |-> 1, target |-> None, frame |-> None]
  /\ file = Closed /\ shown = <<>>
  /\ asked = seekTo /\ taken = None /\ still = 0 /\ ending = 0 /\ calls = 0

-----------------------------------------------------------------------------
(* Controls, from any thread.                                              *)

MayCall == calls < MaxCalls /\ calls' = calls + 1

(* A seek resumes, and clears "ended" once it has released the mutex.      *)
Seek(at) ==
  /\ MayCall
  /\ seekTo' = at /\ paused' = FALSE /\ asked' = at /\ still' = 0
  /\ ending' = ending + 1
  /\ UNCHANGED <<complete, rate, running, ended, position, feeder, file, shown, taken>>

ClearEnded ==
  /\ ending > 0 /\ ending' = ending - 1 /\ ended' = FALSE
  /\ UNCHANGED <<complete, controls, running, position, feeder, file, shown, history, calls>>

SetRate(r) ==
  /\ MayCall /\ rate' = r
  /\ UNCHANGED <<complete, paused, seekTo, running, ended, position, feeder, file, shown, history, ending>>

(* What a pause cannot take back: a seek asked for before it is still      *)
(* carried out, and shows its picture.                                     *)
Owed == IF seekTo # None \/ feeder.target # None THEN -1 ELSE 0

SetPaused(p) ==
  /\ MayCall /\ paused' = p /\ still' = IF p /\ ~ paused THEN Owed ELSE still
  /\ UNCHANGED <<complete, rate, seekTo, running, ended, position, feeder, file, shown, asked, taken, ending>>

Stop ==
  /\ running /\ running' = FALSE
  /\ UNCHANGED <<complete, controls, ended, position, feeder, file, shown, history, ending, calls>>

-----------------------------------------------------------------------------
(* Where an instant is found: the file that covers it, or else the next    *)
(* one from its start.                                                     *)

InWindow(f, at) == f.start < at + Window /\ at - Window < f.end

Covers(f, at) == f.start <= at /\ at < f.end

Earliest(S) == CHOOSE f \in S : \A g \in S : f.start <= g.start

SeekPoint(at) ==
  LET candidates == {f \in complete : InWindow(f, at) /\ (Covers(f, at) \/ at <= f.start)}
      f == Earliest(candidates)
  IN  IF candidates = {} THEN Closed
      ELSE [file |-> f, offset |-> IF Covers(f, at) THEN at - f.start ELSE 0]

(* The demuxer lands on a keyframe that is not after the run-back.         *)
Landings(f, from) == {n \in DOMAIN f.frames : f.frames[n].key /\ f.frames[n].at <= from} \cup {1}

OpenedEarly(point) ==  \* mutant: the run-back is shown too
  LET back == point.offset - Runback
  IN  {[file |-> point.file, next |-> n, catchUp |-> point.file.start + back] :
         n \in Landings(point.file, IF back < 0 THEN 0 ELSE back)}
Opened(point) ==
  LET back == point.offset - Runback
  IN  {[file |-> point.file, next |-> n, catchUp |-> point.file.start + point.offset] :
         n \in Landings(point.file, IF back < 0 THEN 0 ELSE back)}

-----------------------------------------------------------------------------
(* The feeder.                                                             *)

(* A seek is consumed the moment it is read.                               *)
TakeSeek == seekTo' = None /\ taken' = seekTo

HeldStill == paused  \* mutant: a pause keeps a seek waiting
HeldOnlyIdle == paused /\ seekTo = None /\ file = Closed  \* mutant: no pause while playing
Held == paused /\ seekTo = None

Top ==
  /\ feeder.at = "top" /\ running /\ ~ Held
  /\ IF seekTo = None
     THEN /\ file # Closed
          /\ feeder' = [feeder EXCEPT !.at = "pull", !.rate = rate]
          /\ UNCHANGED <<seekTo, taken, shown>>
     ELSE /\ TakeSeek /\ shown' = <<>>
          /\ feeder' = [at |-> "open", rate |-> rate, target |-> seekTo, frame |-> None]
  /\ UNCHANGED <<complete, rate, paused, running, ended, position, file, asked, still, ending, calls>>

FailsOpen == UNCHANGED file /\ ended' = TRUE  \* mutant: the old file stays open
Fails == file' = Closed /\ ended' = TRUE

(* openAt(); the pipeline may fail, and then there is nothing there.       *)
Open ==
  /\ feeder.at = "open"
  /\ \/ Fails /\ feeder' = [feeder EXCEPT !.at = "top", !.target = None]
     \/ /\ SeekPoint(feeder.target) # Closed
        /\ file' \in Opened(SeekPoint(feeder.target)) /\ ended' = FALSE
        /\ feeder' = [feeder EXCEPT !.at = "pull", !.target = None]
  /\ UNCHANGED <<complete, controls, running, position, shown, history, ending, calls>>

AfterLate(f) == f.end - 1  \* mutant: the file just read covers it
After(f) == f.end + 1

(* At the end of a file, on with whatever was recorded next.               *)
EndOfFile ==
  /\ feeder.at = "pull" /\ file.next > Len(file.file.frames)
  /\ \/ Fails
     \/ /\ SeekPoint(After(file.file)) # Closed
        /\ file' \in Opened(SeekPoint(After(file.file))) /\ UNCHANGED ended
  /\ feeder' = [feeder EXCEPT !.at = "top"]
  /\ UNCHANGED <<complete, controls, running, position, shown, history, ending, calls>>

Skipped(x) == Wall(x) < file.catchUp \/ (feeder.rate >= FastRate /\ ~ IsKey(x))

Pull ==
  /\ feeder.at = "pull" /\ file.next <= Len(file.file.frames)
  /\ LET x == [file |-> file.file, n |-> file.next]
     IN  feeder' = IF Skipped(x) THEN [feeder EXCEPT !.at = "top"]
                   ELSE [feeder EXCEPT !.at = "due", !.frame = x]
  /\ file' = [file EXCEPT !.next = @ + 1]
  /\ UNCHANGED <<complete, controls, running, ended, position, shown, history, ending, calls>>

(* Nothing came within the pull's timeout, and it is not the end either.   *)
PullTimesOut ==
  /\ feeder.at = "pull" /\ feeder' = [feeder EXCEPT !.at = "top"]
  /\ UNCHANGED <<complete, controls, running, ended, position, file, shown, history, ending, calls>>

(* The frame is due, or a control ended the wait: it is delivered.         *)
Show ==
  /\ feeder.at = "due"
  /\ position' = Wall(feeder.frame) /\ shown' = Append(shown, feeder.frame)
  /\ still' = IF paused THEN still + 1 ELSE still
  /\ feeder' = [feeder EXCEPT !.at = "top", !.frame = None]
  /\ UNCHANGED <<complete, controls, running, ended, file, asked, taken, ending, calls>>

ExitIdle ==  \* mutant: the loop goes on while a seek is pending
  /\ feeder.at = "top" /\ ~ running /\ seekTo = None
  /\ feeder' = [feeder EXCEPT !.at = "done"]
  /\ UNCHANGED <<complete, controls, running, ended, position, file, shown, history, ending, calls>>
Exit ==
  /\ feeder.at = "top" /\ ~ running
  /\ feeder' = [feeder EXCEPT !.at = "done"]
  /\ UNCHANGED <<complete, controls, running, ended, position, file, shown, history, ending, calls>>

(* stop() has joined the feeder.                                           *)
CloseFile ==
  /\ feeder.at = "done" /\ file # Closed /\ file' = Closed
  /\ UNCHANGED <<complete, controls, running, ended, position, feeder, shown, history, ending, calls>>

(* The recorder finishes a segment; retention removes one.                 *)
Rows ==
  /\ \E f \in Files : complete' = IF f \in complete THEN complete \ {f} ELSE complete \cup {f}
  /\ MayCall
  /\ UNCHANGED <<controls, running, ended, position, feeder, file, shown, history, ending>>

Feed == Top \/ Open \/ EndOfFile \/ Pull \/ PullTimesOut \/ Show \/ Exit

PlayNext ==
  \/ Feed \/ ClearEnded \/ Stop \/ CloseFile \/ Rows
  \/ \E at \in Instants : Seek(at)
  \/ \E r \in Rates : SetRate(r)
  \/ \E p \in BOOLEAN : SetPaused(p)

PlaySpec == PlayInit /\ [][PlayNext]_playVars

(* Every wait of the feeder has a timeout, and a seek goes on to clear.  A *)
(* file that is pulled again and again gives its next frame, or its end.   *)
PlayFairSpec ==
  /\ PlaySpec /\ WF_playVars(Feed) /\ SF_playVars(EndOfFile \/ Pull)
  /\ WF_playVars(ClearEnded) /\ WF_playVars(CloseFile)
-----------------------------------------------------------------------------
At == {"top", "open", "pull", "due", "done"}

PlayTypeOK ==
  /\ complete \subseteq Files /\ rate \in Rates \cup {1} /\ {paused, running, ended} \subseteq BOOLEAN
  /\ {seekTo, asked, taken} \subseteq Instants \cup {None}
  /\ feeder.at \in At /\ feeder.rate \in Rates \cup {1} /\ feeder.target \in Instants \cup {None}
  /\ feeder.at = "open" <=> feeder.target # None
  /\ feeder.at = "due" => feeder.frame \in Frames(file.file)
  /\ feeder.at \in {"pull", "due"} => file # Closed
  /\ file # Closed => file.file \in Files /\ file.next \in 1 .. Len(file.file.frames) + 1

(* The frames read only for the decoder's sake are not shown: after a seek *)
(* nothing older than the instant asked for is, whatever file it opened.   *)
RunbackIsHidden == \A i \in DOMAIN shown : Wall(shown[i]) >= taken

(* Between two seeks time moves on: across files, gaps, changes of speed   *)
(* and rows that come and go, no frame is shown twice or out of order.     *)
NothingTwice == \A i, j \in DOMAIN shown : i < j => Wall(shown[i]) < Wall(shown[j])

(* From the instant asked for onwards, every frame in its place.           *)
ShownInOrder == RunbackIsHidden /\ NothingTwice

(* A pause takes effect at the feeder's next step: one frame on its way,   *)
(* and one picture of a seek asked for before, are all that still comes.   *)
PauseHolds == paused => still <= 1

(* A feeder that says it has ended and has nothing to do has no file open. *)
EndedMeansIdle == ended /\ feeder.at = "top" /\ seekTo = None => file = Closed

(* No seek is lost, whatever else is asked for around it.                  *)
SeekIsTaken == (seekTo # None) ~> (seekTo = None \/ ~ running)

(* When a client asks for nothing more, playback comes to the end of what  *)
(* was recorded.                                                           *)
RunsOut == <>[](Held \/ ~ running \/ file = Closed)

(* Every wait is bounded, so stop() is not kept waiting for the feeder.    *)
StopReturns == ~ running ~> (feeder.at = "done" /\ file = Closed)

(* What PlaybackSource.hpp says of the surplus of a seek, that it is sent: *)
(* a frame that is shown is a keyframe, or follows the one shown before.   *)
SurplusIsSent ==
  \A i \in DOMAIN shown :
     \/ IsKey(shown[i])
     \/ i > 1 /\ shown[i - 1] = [shown[i] EXCEPT !.n = @ - 1]

(* A timeline that has come to its end says so.                            *)
EndIsReported ==
  feeder.at = "top" /\ running /\ file = Closed /\ seekTo = None /\ ending = 0 => ended
=============================================================================
