------------------------------ MODULE ResultPath ------------------------------
(***************************************************************************)
(* From a decoded frame to a consumer's socket: the worker of an AI job    *)
(* (AiRuntime::Worker), ResultSinkSet and UnixSocketSink.                  *)
(*                                                                         *)
(* A worker keeps the latest frame it was offered, analyses it and hands   *)
(* the result to the sink, which writes it to every consumer with the      *)
(* sink's mutex held: other workers, the thread that accepts consumers and *)
(* stop() wait meanwhile.  A record leaves in Pieces writes, each of which *)
(* may take a part only; the socket's timeout makes a write to a consumer  *)
(* that does not read fail.                                                *)
(***************************************************************************)
EXTENDS Naturals, Sequences, FiniteSets, SequencesExt

CONSTANTS
  Jobs, Consumers,
  Pieces,      \* writes that one record takes
  MaxFrames,   \* bound: frames the decoders give out, to all the workers
  Fails        \* TRUE: accept() may fail

Nobody == "nobody"

ASSUME ResultAssumption ==
  /\ Pieces \in Nat \ {0} /\ MaxFrames \in Nat /\ Fails \in BOOLEAN
  /\ Nobody \notin Jobs \cup Consumers

VARIABLES
  offered,    \* frames given to the workers so far
  hasPending, \* one of them waits: the latest
  running,    \* "on", or "taken" by stop() and then "told" to end
  loop, seq,
  phase,      \* main(): "up", then "ai" (aiRuntime->stop()), "sinks", "down"
  serving,    \* m_running of the sink
  acceptor,   \* [at, fd]
  lock,       \* who holds the sink's m_mutex
  clients,    \* m_clients
  sending,    \* of the record being sent: [rec, to (an index), piece]
  consumer,   \* what each consumer is about
  wire        \* what each has been sent: pieces [rec, piece], rec = <<job, seq>>

sinkVars == <<serving, acceptor, lock, clients, sending>>
jobVars  == <<offered, hasPending, running, loop, seq>>
vars == <<jobVars, phase, sinkVars, consumer, wire>>

NothingSent == [rec |-> <<>>, to |-> 0, piece |-> 0]

Init ==
  /\ offered = 0 /\ hasPending = [j \in Jobs |-> FALSE]
  /\ running = [j \in Jobs |-> "on"] /\ loop = [j \in Jobs |-> "waiting"]
  /\ seq = [j \in Jobs |-> 0] /\ phase = "up"
  /\ serving = TRUE /\ acceptor = [at |-> "accepting", fd |-> Nobody]
  /\ lock = Nobody /\ clients = <<>> /\ sending = NothingSent
  /\ consumer = [c \in Consumers |-> "out"] /\ wire = [c \in Consumers |-> <<>>]

-----------------------------------------------------------------------------
(* The worker.                                                             *)

(* offer(), on the decoder's thread: the latest frame replaces the one     *)
(* that waits.  A worker that was told to end is off its decoder, and the  *)
(* decoders stop after the workers.                                        *)
Offer(j) ==
  /\ phase \in {"up", "ai"} /\ running[j] # "told" /\ offered < MaxFrames
  /\ offered' = offered + 1
  /\ hasPending' = [hasPending EXCEPT ![j] = TRUE]
  /\ UNCHANGED <<running, loop, seq, phase, consumer, wire>> /\ UNCHANGED sinkVars

(* The wait is for 200 ms at most, so a lost notification costs no more.   *)
Take(j) ==
  /\ loop[j] = "waiting"
  /\ IF running[j] = "told" THEN loop' = [loop EXCEPT ![j] = "ended"] /\ UNCHANGED hasPending
     ELSE /\ hasPending[j]
          /\ loop' = [loop EXCEPT ![j] = "analysing"]
          /\ hasPending' = [hasPending EXCEPT ![j] = FALSE]
  /\ UNCHANGED <<offered, running, seq, phase, consumer, wire>> /\ UNCHANGED sinkVars

(* A bad frame and one with nothing on it end here; else the result is     *)
(* numbered before anybody is asked whether it is wanted.                  *)
Analyse(j, found) ==
  /\ loop[j] = "analysing"
  /\ loop' = [loop EXCEPT ![j] = IF found THEN "asking" ELSE "waiting"]
  /\ seq' = [seq EXCEPT ![j] = IF found THEN @ + 1 ELSE @]
  /\ UNCHANGED <<offered, hasPending, running, phase, consumer, wire>> /\ UNCHANGED sinkVars

(* anyConsumers(), under the lock; then the picture is encoded without it. *)
Ask(j) ==
  /\ loop[j] = "asking" /\ lock = Nobody
  /\ loop' = [loop EXCEPT ![j] = IF clients # <<>> THEN "publishing" ELSE "waiting"]
  /\ UNCHANGED <<offered, hasPending, running, seq, phase, consumer, wire>> /\ UNCHANGED sinkVars

-----------------------------------------------------------------------------
(* publish().                                                              *)

Publish(j) ==
  /\ loop[j] = "publishing" /\ lock = Nobody
  /\ IF clients = <<>>
     THEN loop' = [loop EXCEPT ![j] = "waiting"] /\ UNCHANGED <<lock, sending>>
     ELSE /\ loop' = [loop EXCEPT ![j] = "sending"] /\ lock' = j
          /\ sending' = [rec |-> <<j, seq[j]>>, to |-> 1, piece |-> 1]
  /\ UNCHANGED <<offered, hasPending, running, seq, phase, serving, acceptor, clients, consumer, wire>>

Target == clients[sending.to]

(* A send that fails closes the consumer and takes it off the list; the    *)
(* next in line is then where it was.                                      *)
Spares(i)  == clients         \* mutant: it is kept
Without(i) == RemoveAt(clients, i)
SkipsOne(i) == i + 1          \* mutant: ++it after erase()
FollowingErased(i) == i

Sent(j) ==
  /\ lock = j /\ sending.to <= Len(clients) /\ consumer[Target] = "reading"
  /\ wire' = [wire EXCEPT ![Target] = Append(@, [rec |-> sending.rec, piece |-> sending.piece])]
  /\ sending' = IF sending.piece < Pieces THEN [sending EXCEPT !.piece = @ + 1]
                ELSE [sending EXCEPT !.piece = 1, !.to = @ + 1]
  /\ UNCHANGED <<serving, acceptor, lock, clients, phase, consumer>> /\ UNCHANGED jobVars

(* It has gone, or reads so slowly that the two seconds run out.           *)
NoTimeout == {"gone"}           \* mutant: SO_SNDTIMEO is not set
Refusing == {"stalled", "gone"}
SendFails(j) ==
  /\ lock = j /\ sending.to <= Len(clients) /\ consumer[Target] \in Refusing
  /\ clients' = Without(sending.to)
  /\ consumer' = [consumer EXCEPT ![Target] = "closed"]
  /\ sending' = [sending EXCEPT !.piece = 1, !.to = FollowingErased(@)]
  /\ UNCHANGED <<serving, acceptor, lock, phase, wire>> /\ UNCHANGED jobVars

Published(j) ==
  /\ lock = j /\ loop[j] = "sending" /\ sending.to > Len(clients)
  /\ lock' = Nobody /\ sending' = NothingSent /\ loop' = [loop EXCEPT ![j] = "waiting"]
  /\ UNCHANGED <<offered, hasPending, running, seq, serving, acceptor, clients, phase, consumer, wire>>

-----------------------------------------------------------------------------
(* acceptLoop().  Any error ends it.                                       *)

Accept(c) ==
  /\ serving /\ acceptor.at = "accepting" /\ consumer[c] = "calling"
  /\ acceptor' = [at |-> "accepted", fd |-> c]
  /\ UNCHANGED <<serving, lock, clients, sending, phase, consumer, wire>> /\ UNCHANGED jobVars

AcceptFails ==
  /\ acceptor.at = "accepting" /\ (~ serving \/ Fails)
  /\ acceptor' = [acceptor EXCEPT !.at = "ended"]
  /\ UNCHANGED <<serving, lock, clients, sending, phase, consumer, wire>> /\ UNCHANGED jobVars

Admit ==
  /\ acceptor.at = "accepted" /\ lock = Nobody
  /\ clients' = Append(clients, acceptor.fd)
  /\ consumer' = [consumer EXCEPT ![acceptor.fd] = IF @ = "calling" THEN "reading" ELSE @]
  /\ acceptor' = [at |-> IF serving THEN "accepting" ELSE "ended", fd |-> Nobody]
  /\ UNCHANGED <<serving, lock, sending, phase, wire>> /\ UNCHANGED jobVars

-----------------------------------------------------------------------------
(* The other end of the socket.                                            *)
Become(c, from, to) ==
  /\ consumer[c] \in from /\ consumer' = [consumer EXCEPT ![c] = to]
  /\ UNCHANGED <<phase, wire>> /\ UNCHANGED sinkVars /\ UNCHANGED jobVars
Connect(c) == Become(c, {"out"}, "calling")
Stall(c)   == Become(c, {"reading"}, "stalled")
Vanish(c)  == Become(c, {"reading", "stalled", "calling"}, "gone")

-----------------------------------------------------------------------------
(* main(): the runtime ends its workers, then the sinks are stopped.       *)

(* The workers of the table are taken out of it.  One that applyJob() has  *)
(* not entered yet, or that two calls for one job left behind, is not in   *)
(* it and runs on.                                                         *)
StopAi ==
  /\ phase = "up" /\ phase' = "ai"
  /\ \E taken \in SUBSET Jobs :
       running' = [j \in Jobs |-> IF j \in taken THEN "taken" ELSE "on"]
  /\ UNCHANGED <<offered, hasPending, loop, seq, consumer, wire>> /\ UNCHANGED sinkVars

NobodyJoins == TRUE            \* mutant: the sinks go without waiting
Joined == \A j \in Jobs : running[j] = "on" \/ loop[j] = "ended"

(* shutDown(), of one after another: each is joined before the next is told. *)
ShutDown(j) ==
  /\ phase = "ai" /\ running[j] = "taken"
  /\ \A i \in Jobs : running[i] = "told" => loop[i] = "ended"
  /\ running' = [running EXCEPT ![j] = "told"]
  /\ UNCHANGED <<offered, hasPending, loop, seq, phase, consumer, wire>> /\ UNCHANGED sinkVars

StopSinks ==
  /\ phase = "ai" /\ Joined /\ phase' = "sinks" /\ serving' = FALSE
  /\ UNCHANGED <<acceptor, lock, clients, sending, consumer, wire>> /\ UNCHANGED jobVars

(* The accepting thread is joined before the lock is taken.                *)
CloseAll ==
  /\ phase = "sinks" /\ acceptor.at = "ended" /\ lock = Nobody /\ phase' = "down"
  /\ consumer' = [c \in Consumers |-> IF c \in ToSet(clients) THEN "closed" ELSE consumer[c]]
  /\ clients' = <<>>
  /\ UNCHANGED <<serving, acceptor, lock, sending, wire>> /\ UNCHANGED jobVars

Work(j) == Take(j) \/ (\E found \in BOOLEAN : Analyse(j, found)) \/ Ask(j) \/ Publish(j)
             \/ Sent(j) \/ SendFails(j) \/ Published(j)
Accepting == Admit \/ AcceptFails \/ \E c \in Consumers : Accept(c)
Shutdown  == (\E j \in Jobs : ShutDown(j)) \/ StopSinks \/ CloseAll

Next ==
  \/ \E j \in Jobs : Offer(j) \/ Work(j)
  \/ Accepting
  \/ \E c \in Consumers : Connect(c) \/ Stall(c) \/ Vanish(c)
  \/ StopAi \/ Shutdown

Spec == Init /\ [][Next]_vars

(* Threads run.  A worker has one step to take at a time, and the lock it  *)
(* may wait for is released by whoever holds it.                           *)
FairSpec ==
  /\ Spec
  /\ \A j \in Jobs : SF_vars(Work(j))
  /\ SF_vars(Admit) /\ WF_vars(AcceptFails /\ ~ serving) /\ WF_vars(Shutdown)

-----------------------------------------------------------------------------
Loops     == {"waiting", "analysing", "asking", "publishing", "sending", "ended"}
Doings    == {"out", "calling", "reading", "stalled", "gone", "closed"}
Recs      == (Jobs \X Nat) \cup {<<>>}
WirePiece == [rec : Recs, piece : 1 .. Pieces]
TypeOK ==
  /\ offered \in 0 .. MaxFrames /\ hasPending \in [Jobs -> BOOLEAN]
  /\ running \in [Jobs -> {"on", "taken", "told"}] /\ loop \in [Jobs -> Loops] /\ seq \in [Jobs -> Nat]
  /\ phase \in {"up", "ai", "sinks", "down"} /\ serving \in BOOLEAN
  /\ acceptor \in [at : {"accepting", "accepted", "ended"}, fd : Consumers \cup {Nobody}]
  /\ lock \in Jobs \cup {Nobody} /\ clients \in Seq(Consumers)
  /\ sending \in [rec : Recs, to : Nat, piece : 0 .. Pieces]
  /\ consumer \in [Consumers -> Doings] /\ wire \in [Consumers -> Seq(WirePiece)]

(* "4-byte length, then the body": a consumer that still is on the list    *)
(* finds every record where the one before it ends, the last one whole     *)
(* unless it is being sent at this moment.                                 *)
Follows(got, n) ==
  IF n = 1 \/ got[n - 1].piece = Pieces THEN got[n].piece = 1
  ELSE got[n].rec = got[n - 1].rec /\ got[n].piece = got[n - 1].piece + 1
EndsWhole(got) == got = <<>> \/ got[Len(got)].piece = Pieces
WholeRecords ==
  \A i \in DOMAIN clients :
    LET got == wire[clients[i]]
    IN  /\ \A n \in DOMAIN got : Follows(got, n)
        /\ ~ EndsWhole(got) => /\ lock # Nobody /\ sending.to = i
                           /\ sending.piece = got[Len(got)].piece + 1

(* From the first record of a job that a consumer is sent, the job's       *)
(* numbers follow one another, in order and without a gap: what seq is for.*)
NumbersFollow ==
  \A c \in Consumers, j \in Jobs :
    LET mine == SelectSeq(wire[c], LAMBDA p : p.rec[1] = j /\ p.piece = 1)
    IN  \A n \in 1 .. Len(mine) - 1 : mine[n + 1].rec[2] = mine[n].rec[2] + 1

(* "MUST NOT BLOCK INDEFINITELY": the program stops, whatever consumers do.*)
ProgramStops == phase = "ai" ~> phase = "down"

(* A closed sink is not written to: its descriptors may be somebody else's *)
(* by then.  While it closes, only a worker that stop() did not find in    *)
(* its table may still write.                                              *)
StoppedIsSilent ==
  [][(phase \in {"sinks", "down"} /\ wire' # wire
        => phase = "sinks" /\ running[lock] = "on")]_vars

-----------------------------------------------------------------------------
(* What the order of main() relies on ("AI first") and does not get from   *)
(* it: no worker is about to use the sinks when stopAll() clears them.     *)
SinksOutliveCalls ==
  phase = "down" => \A j \in Jobs : loop[j] \notin {"asking", "publishing", "sending"}
=============================================================================
