--------------------------- MODULE RecorderProofs ---------------------------
(***************************************************************************)
(* What holds of the recording manager for any number of callers, sessions,*)
(* files, calls and rows: one session at a time (NoRivalSessions), footage *)
(* an event asked for is kept (AskedFootageSurvives), the file being       *)
(* written is not deleted (OpenFileStays), what a gate holds is finished,  *)
(* listed and undecided (HeldIsListedAndUndecided), a stopped session      *)
(* leaves no open row (NoRowLeftOpen), and who waits inside a call waits   *)
(* for somebody who can go on (WaitsAreServed).                            *)
(*                                                                         *)
(* The inductive invariant follows a file from the muxer through the bus   *)
(* and the watcher to the gate and a decision, each in one place at a time;*)
(* and a session from the entry to the thread that stops it, which has     *)
(* nobody else's.                                                          *)
(***************************************************************************)
EXTENDS Recorder, SequenceTheorems, FiniteSetTheorems, WellFoundedInduction, TLAPS

Message == ({"opened", "closed"} \X Files) \cup ({"eos", "error"} \X {0})
Gate == [held : SUBSET Files, saves : SUBSET Files, hot : BOOLEAN, present : BOOLEAN]
Versions == Cameras \cup {NoCamera}
Entry == [camera : Versions, session : Sessions \cup {0}, gate : Gate,
          builtShape : 0 .. 2, builtMode : Modes]
Locals == [at : {"idle", "enter", "stopping", "draining", "joining", "build", "joinWorker",
                 "flush", "stopped"},
           camera : Versions, known : BOOLEAN, victim : Sessions \cup {0}, build : BOOLEAN,
           gate : Gate]
Recording == [phase : {"unused", "running", "draining", "joining", "leaving", "gone"},
              mode : Modes, writing : Files \cup {0}, open : SUBSET Files,
              bus : Seq(Message), storing : Files \cup {0}, drained : BOOLEAN,
              broken : BOOLEAN]

Types ==
  /\ entry \subseteq Entry /\ \A d, e \in entry : d = e
  /\ thread \in [Threads -> Locals]
  /\ worker \in [at : {"wait", "files", "rows", "expire", "stopped"}, batch : SUBSET Files,
                 expire : BOOLEAN]
  /\ running \in BOOLEAN /\ removed \in BOOLEAN
  /\ applying \in Threads \cup {Nobody} /\ mutex \in Threads \cup {Nobody}
  /\ session \in [Sessions -> Recording]
  /\ madeBy \in [Files -> Sessions \cup {0}]
  /\ rows \in [Files -> {"none", "recording", "complete"}]
  /\ disk \subseteq Files /\ asked \subseteq Files /\ kept \subseteq Files
  /\ dropped \subseteq Files /\ abandoned \subseteq Sessions

(* Where each thread may be, and whose turn it is.                         *)
Halting(t) == thread[t].at \in {"stopping", "draining", "joining"}
BeforeShutdown == thread[Main].at \in {"idle", "joinWorker"}
Intact == ~ removed /\ BeforeShutdown

Turns ==
  /\ running => thread[Main].at = "idle"
  /\ worker.at = "stopped" => ~ running
  /\ worker.at \in {"wait", "expire", "stopped"} => worker.batch = {}
  /\ thread[Main].at \notin {"enter", "build"} /\ ~ thread[Main].build
  /\ BeforeShutdown => thread[Main].gate = NoGate
  /\ ~ BeforeShutdown => worker.at = "stopped"
  /\ \A t \in Callers : thread[t].at \notin {"joinWorker", "flush", "stopped"}
  /\ \A t \in Threads : /\ thread[t].at = "build" => thread[t].build
                        /\ thread[t].build => applying = t
  /\ applying # Nobody => \A e \in entry : e.session = 0
  /\ Intact => \A t \in Threads : Halting(t) => applying = t

(* A session that is alive is the entry's, or of one thread that stops it. *)
Owners ==
  /\ \A t \in Threads : Halting(t) =>
       /\ thread[t].victim # 0
       /\ \A e \in entry : e.session # thread[t].victim
       /\ \A u \in Threads : Halting(u) /\ thread[u].victim = thread[t].victim => u = t
       /\ LET phase == session[thread[t].victim].phase
          IN  CASE thread[t].at = "stopping" -> phase = "running"
                [] thread[t].at = "draining" -> phase = "draining"
                [] OTHER -> phase \in {"joining", "leaving"}
  /\ \A e \in entry : e.session # 0 => session[e.session].phase = "running"
  /\ \A s \in Sessions : Alive(s) =>
       \/ \E e \in entry : e.session = s
       \/ \E t \in Threads : Halting(t) /\ thread[t].victim = s
  /\ \A s \in Sessions : ~ Alive(s) =>
       /\ session[s].writing = 0 /\ session[s].open = {} /\ session[s].bus = <<>>
       /\ session[s].storing = 0
       /\ session[s].phase = "unused" => ~ session[s].drained

(* Of one file the bus carries at most one message of each kind, and no    *)
(* announcement of one that is open, nor the end of one still written.     *)
Once(x) ==
  /\ \A i, j \in DOMAIN x.bus :
       i # j /\ x.bus[i] = x.bus[j] => x.bus[i][1] \notin {"opened", "closed"}
  /\ \A i \in DOMAIN x.bus : /\ x.bus[i][1] \in {"opened", "closed"} => x.bus[i][2] # 0
                             /\ x.bus[i][1] = "opened" => x.bus[i][2] \notin x.open
                             /\ x.bus[i] = <<"closed", x.writing>> => x.writing = 0
                             /\ x.bus[i][1] = "eos" => x.bus[i] = <<"eos", 0>>

(* A file on its way to the gate, before it is stored.                     *)
Under(x) == ({x.writing} \cup {x.bus[i][2] : i \in DOMAIN x.bus} \cup x.open) \ {0}

Pending == UNION {e.gate.held : e \in entry}
Flushed == thread[Main].gate.held
Settled == Pending \cup Flushed \cup kept \cup dropped \cup worker.batch

OnTheWay ==
  /\ \A s \in Sessions : Once(session[s])
  /\ \A s \in Sessions : \A f \in Under(session[s]) :
       /\ madeBy[f] = s /\ f \in disk /\ rows[f] # "complete" /\ f \notin Settled
  /\ \A s \in Sessions : LET f == session[s].storing IN f # 0 =>
       /\ madeBy[f] = s /\ f \in disk /\ rows[f] = "complete" /\ f \notin Settled

Arrived ==
  /\ \A f \in Pending : rows[f] = "complete" /\ f \in disk
  /\ Pending \cap (Flushed \cup kept \cup dropped \cup worker.batch) = {}
  /\ \A f \in Files : madeBy[f] = 0 =>
       f \notin Settled \cup asked /\ rows[f] = "none"

(* What was asked for and is not decided yet the gate knows to be asked.   *)
Promised ==
  /\ ~ removed => asked \cap dropped = {}
  /\ Intact => \A e \in entry : \A f \in asked :
       \/ f \in e.gate.saves
       \/ f \notin e.gate.held /\ \A s \in Sessions :
                                    f \notin Under(session[s]) \cup {session[s].storing}
  /\ Intact /\ entry = {} => asked = {}
  /\ ~ removed => asked \cap Flushed \subseteq thread[Main].gate.saves

(* Every file of a session is closed after it is opened, unless the        *)
(* session was given up: then nothing is said of it.                       *)
ClosedLater(x) ==
  /\ \A f \in x.open : f = x.writing \/ \E j \in DOMAIN x.bus : x.bus[j] = <<"closed", f>>
  /\ \A i \in DOMAIN x.bus : x.bus[i][1] = "opened" =>
       \/ x.bus[i][2] = x.writing
       \/ \E j \in DOMAIN x.bus : j > i /\ x.bus[j] = <<"closed", x.bus[i][2]>>
  /\ \A i \in DOMAIN x.bus : /\ x.bus[i][1] # "error"
                             /\ x.bus[i][1] = "eos" => /\ i = Len(x.bus) /\ x.writing = 0
                                                       /\ ~ x.drained /\ x.phase # "running"
  /\ x.drained => x.bus = <<>> /\ x.writing = 0 /\ x.phase # "running"
  /\ x.phase \in {"joining", "leaving"} => x.drained

Closes ==
  /\ \A s \in Sessions \ abandoned : ClosedLater(session[s])
  /\ \A f \in Files : rows[f] = "recording" =>
       madeBy[f] \in abandoned \/ f \in session[madeBy[f]].open

IInv == Types /\ Turns /\ Owners /\ OnTheWay /\ Arrived /\ Promised /\ Closes

-----------------------------------------------------------------------------
(* The bus as a sequence: what a message taken off it, or put on it,       *)
(* leaves of the others.                                                   *)

LEMMA Kinds == Types => \A s \in Sessions :
  /\ session[s] \in Recording /\ session[s].bus \in Seq(Message)
  /\ DOMAIN session[s].bus = 1 .. Len(session[s].bus) /\ Len(session[s].bus) \in Nat
  /\ \A i \in DOMAIN session[s].bus : session[s].bus[i] \in Message
<1> SUFFICES ASSUME Types, NEW s \in Sessions
             PROVE  /\ session[s] \in Recording /\ session[s].bus \in Seq(Message)
                    /\ DOMAIN session[s].bus = 1 .. Len(session[s].bus)
                    /\ Len(session[s].bus) \in Nat
                    /\ \A i \in DOMAIN session[s].bus : session[s].bus[i] \in Message
  OBVIOUS
<1>1. session[s] \in Recording
  BY DEF Types
<1>2. session[s].bus \in Seq(Message)
  BY <1>1 DEF Recording
<1> QED BY <1>1, <1>2, LenProperties, ElementOfSeq

LEMMA Taken ==
  ASSUME NEW b \in Seq(Message), b # <<>>
  PROVE  /\ Tail(b) \in Seq(Message) /\ Len(b) \in Nat /\ Len(b) >= 1
         /\ DOMAIN b = 1 .. Len(b) /\ DOMAIN Tail(b) = 1 .. Len(b) - 1
         /\ Len(Tail(b)) = Len(b) - 1
         /\ Head(b) = b[1] /\ b[1] \in Message
         /\ \A i \in 1 .. Len(b) - 1 : Tail(b)[i] = b[i + 1]
<1>1. Len(b) \in Nat /\ Len(b) # 0 /\ DOMAIN b = 1 .. Len(b)
  BY EmptySeq, LenProperties
<1>2. Tail(b) \in Seq(Message) /\ Len(Tail(b)) = Len(b) - 1
      /\ \A i \in 1 .. Len(Tail(b)) : Tail(b)[i] = b[i + 1]
  BY HeadTailProperties
<1>3. DOMAIN Tail(b) = 1 .. Len(Tail(b))
  BY <1>2, LenProperties
<1>4. 1 \in 1 .. Len(b)
  BY <1>1
<1>5. b[1] \in Message
  BY <1>4, ElementOfSeq
<1>6. Head(b) = b[1]
  OBVIOUS
<1> QED BY <1>1, <1>2, <1>3, <1>5, <1>6

Posted(c, b, m, p) ==
  /\ DOMAIN c = DOMAIN b \cup {p} /\ p \notin DOMAIN b /\ p = Len(c) /\ c[p] = m
  /\ \A i \in DOMAIN b : i < p /\ c[i] = b[i]

PostedBoth(c, b, m, k, p, q) ==
  /\ DOMAIN c = DOMAIN b \cup {p, q} /\ p \notin DOMAIN b /\ q \notin DOMAIN b
  /\ c[p] = m /\ c[q] = k /\ p < q /\ p # q /\ q = Len(c)
  /\ \A i \in DOMAIN b : i < p /\ i < q /\ i # q /\ c[i] = b[i]

LEMMA PostedOne ==
  ASSUME NEW b \in Seq(Message), NEW m \in Message
  PROVE  /\ b \o <<m>> \in Seq(Message)
         /\ \E p \in Nat : Posted(b \o <<m>>, b, m, p)
<1> DEFINE a == <<m>>
           c == b \o a
<1>1. a \in Seq(Message) /\ Len(a) = 1 /\ a[1] = m
  OBVIOUS
<1> HIDE DEF a
<1>2. c \in Seq(Message) /\ Len(c) = Len(b) + Len(a)
      /\ \A i \in 1 .. Len(b) + Len(a) : c[i] = IF i <= Len(b) THEN b[i] ELSE a[i - Len(b)]
  BY <1>1, ConcatProperties
<1>3. Len(b) \in Nat /\ DOMAIN b = 1 .. Len(b) /\ DOMAIN c = 1 .. Len(c)
  BY <1>2, LenProperties
<1> HIDE DEF c
<1>4. Posted(c, b, m, Len(b) + 1)
  BY <1>1, <1>2, <1>3 DEF Posted
<1>5. c \in Seq(Message) /\ Len(b) + 1 \in Nat
  BY <1>2, <1>3
<1> QED BY <1>4, <1>5 DEF a, c

LEMMA PostedTwo ==
  ASSUME NEW b \in Seq(Message), NEW m \in Message, NEW k \in Message
  PROVE  /\ b \o <<m, k>> \in Seq(Message)
         /\ \E p, q \in Nat : PostedBoth(b \o <<m, k>>, b, m, k, p, q)
<1> DEFINE a == <<m, k>>
           c == b \o a
<1>1. a \in Seq(Message) /\ Len(a) = 2 /\ a[1] = m /\ a[2] = k
  OBVIOUS
<1> HIDE DEF a
<1>2. c \in Seq(Message) /\ Len(c) = Len(b) + Len(a)
      /\ \A i \in 1 .. Len(b) + Len(a) : c[i] = IF i <= Len(b) THEN b[i] ELSE a[i - Len(b)]
  BY <1>1, ConcatProperties
<1>3. Len(b) \in Nat /\ DOMAIN b = 1 .. Len(b) /\ DOMAIN c = 1 .. Len(c)
  BY <1>2, LenProperties
<1> HIDE DEF c
<1>4. PostedBoth(c, b, m, k, Len(b) + 1, Len(b) + 2)
  BY <1>1, <1>2, <1>3 DEF PostedBoth
<1>5. c \in Seq(Message) /\ Len(b) + 1 \in Nat /\ Len(b) + 2 \in Nat
  BY <1>2, <1>3
<1> QED BY <1>4, <1>5 DEF a, c

(* The entry, if there is one, is the only one.                            *)
LEMMA NoneYet ==
  /\ NoCamera \in Versions /\ NoCamera \in Camera /\ NoGate \in Gate /\ NewGate \in Gate /\ NewEntry \in Entry
  /\ NoGate.held = {} /\ NewGate.held = {} /\ NewEntry.gate = NoGate /\ NewEntry.session = 0
  /\ Idle \in Locals /\ Idle.gate = NoGate /\ Idle.at = "idle" /\ ~ Idle.build
<1>1. NoCamera \in Camera /\ NoCamera \in Versions
  BY DEF NoCamera, Camera, Modes, Versions
<1>2. NoGate \in Gate /\ NewGate \in Gate
  BY DEF NoGate, NewGate, Gate
<1>3. NewEntry \in Entry /\ NewEntry.gate = NoGate /\ NewEntry.session = 0
  BY <1>1, <1>2 DEF NewEntry, Entry, Modes
<1>4. Idle \in Locals /\ Idle.gate = NoGate /\ Idle.at = "idle" /\ ~ Idle.build
  BY <1>1, <1>2 DEF Idle, Locals
<1> QED BY <1>1, <1>2, <1>3, <1>4 DEF NoGate, NewGate

LEMMA OneEntry ==
  ASSUME Types
  PROVE  /\ Present => TheEntry \in entry /\ entry = {TheEntry}
         /\ EntryOrNew \in Entry
         /\ ~ Present => EntryOrNew = NewEntry /\ entry = {}
         /\ Present => EntryOrNew = TheEntry
         /\ \A e \in entry : e = EntryOrNew /\ e \in Entry /\ e.gate \in Gate
         /\ Pending \subseteq Files /\ Pending = EntryOrNew.gate.held
<1>1. Present => TheEntry \in entry
  BY DEF Present, TheEntry
<1>2. Present => entry = {TheEntry}
  BY <1>1 DEF Types
<1>3. EntryOrNew \in Entry
  BY <1>1, NoneYet DEF Types, EntryOrNew
<1>4. \A e \in entry : e = EntryOrNew
  BY <1>2 DEF EntryOrNew, Present
<1>5. \A e \in Entry : e.gate \in Gate
  BY DEF Entry
<1>6. \A g \in Gate : g.held \subseteq Files
  BY DEF Gate
<1>7. Pending = EntryOrNew.gate.held
  <2>1. CASE Present  BY <1>2, <1>4, <2>1 DEF Pending, EntryOrNew
  <2>2. CASE ~ Present  BY <2>2, NoneYet DEF Pending, EntryOrNew, Present
  <2> QED BY <2>1, <2>2
<1>8. Pending \subseteq Files
  BY <1>3, <1>5, <1>6, <1>7
<1>9. ~ Present => EntryOrNew = NewEntry /\ entry = {}
  BY DEF EntryOrNew, Present
<1>10. Present => EntryOrNew = TheEntry
  BY DEF EntryOrNew
<1> QED BY <1>1, <1>2, <1>3, <1>4, <1>5, <1>7, <1>8, <1>9, <1>10

(* What apply() decides: to leave the session be, or to take it out.       *)
LEMMA Decided ==
  ASSUME NEW e \in Entry, NEW cam \in Versions, NEW known, NEW d, d = Decision(e, cam, known)
  PROVE  /\ d.entry \in Entry /\ d.entry.gate = e.gate /\ d.build \in BOOLEAN
         /\ d.victim \in Sessions \cup {0}
         /\ \/ d.victim = 0 /\ ~ d.build /\ d.entry.session = e.session
            \/ d.victim = e.session /\ d.entry.session = 0 /\ (d.victim # 0 \/ d.build)
<1> DEFINE seen == [e EXCEPT !.camera = cam]
           a == [seen EXCEPT !.session = 0, !.builtShape = 0]
           b == [seen EXCEPT !.session = 0]
<1>1. seen \in Entry /\ seen.gate = e.gate /\ seen.session = e.session
  BY DEF Entry
<1> HIDE DEF seen
<1>2. a \in Entry /\ a.gate = e.gate /\ a.session = 0
  <2>1. a = [[seen EXCEPT !.session = 0] EXCEPT !.builtShape = 0]
    OBVIOUS
  <2>2. [seen EXCEPT !.session = 0] \in Entry
    BY <1>1 DEF Entry
  <2>3. 0 \in 0 .. 2
    OBVIOUS
  <2>4. a \in Entry
    BY <2>1, <2>2, <2>3 DEF Entry
  <2>5. a.gate = seen.gate /\ a.session = 0
    BY <1>1 DEF Entry
  <2> QED BY <1>1, <2>4, <2>5
<1>3. b \in Entry /\ b.gate = e.gate /\ b.session = 0
  BY <1>1 DEF Entry
<1>4. e.session \in Sessions \cup {0}
  BY DEF Entry
<1>5. \/ d = [entry |-> seen, victim |-> 0, build |-> FALSE]
      \/ e.session # 0 /\ d = [entry |-> a, victim |-> e.session, build |-> FALSE]
      \/ d = [entry |-> b, victim |-> e.session, build |-> TRUE]
  BY DEF Decision, seen
<1> HIDE DEF a, b
<1>6. CASE d = [entry |-> seen, victim |-> 0, build |-> FALSE]
  BY <1>1, <1>6
<1>7. CASE e.session # 0 /\ d = [entry |-> a, victim |-> e.session, build |-> FALSE]
  BY <1>2, <1>4, <1>7
<1>8. CASE d = [entry |-> b, victim |-> e.session, build |-> TRUE]
  BY <1>3, <1>4, <1>8
<1> QED BY <1>5, <1>6, <1>7, <1>8

-----------------------------------------------------------------------------
(* One session becomes n, the others are what they were.                   *)
LEMMA Changed ==
  ASSUME Types, NEW s \in Sessions, NEW n \in Recording, session' = [session EXCEPT ![s] = n]
  PROVE  /\ session' \in [Sessions -> Recording] /\ session'[s] = n
         /\ \A r \in Sessions : r # s => session'[r] = session[r]
BY DEF Types

(* A session that goes on as it did keeps its owner.                       *)
LEMMA OwnersStay ==
  ASSUME Types, Owners, NEW s \in Sessions, NEW n \in Recording,
         session' = [session EXCEPT ![s] = n], UNCHANGED thread, Alive(s),
         \/ n.phase = session[s].phase
         \/ session[s].phase = "joining" /\ n.phase = "leaving",
         \A e \in entry' : \E d \in entry : d.session = e.session,
         \A d \in entry : \E e \in entry' : d.session = e.session
  PROVE  Owners'
<1>1. /\ session'[s] = n /\ \A r \in Sessions : r # s => session'[r] = session[r]
  BY Changed
<1>2. \A r \in Sessions : Alive(r)' = Alive(r)
  BY <1>1 DEF Alive
<1>3. \A t \in Threads : Halting(t)' = Halting(t)
  BY DEF Halting
<1>4. \A t \in Threads : thread[t].victim \in Sessions \cup {0}
  BY DEF Types, Locals
<1>5. ASSUME NEW t \in Threads, Halting(t)'
      PROVE  /\ thread'[t].victim # 0
             /\ \A e \in entry' : e.session # thread'[t].victim
             /\ \A u \in Threads : Halting(u)' /\ thread'[u].victim = thread'[t].victim => u = t
             /\ LET phase == session'[thread'[t].victim].phase
                IN  CASE thread'[t].at = "stopping" -> phase = "running"
                      [] thread'[t].at = "draining" -> phase = "draining"
                      [] OTHER -> phase \in {"joining", "leaving"}
  <2>1. Halting(t) /\ thread'[t] = thread[t]
    BY <1>3, <1>5
  <2>2. thread[t].victim \in Sessions
    BY <1>4, <2>1 DEF Owners
  <2>3. LET phase == session[thread[t].victim].phase
        IN  CASE thread[t].at = "stopping" -> phase = "running"
              [] thread[t].at = "draining" -> phase = "draining"
              [] OTHER -> phase \in {"joining", "leaving"}
    BY <2>1 DEF Owners
  <2>4. \/ session'[thread[t].victim].phase = session[thread[t].victim].phase
        \/ session[thread[t].victim].phase = "joining"
           /\ session'[thread[t].victim].phase = "leaving"
    BY <1>1, <2>2
  <2>5. LET phase == session'[thread'[t].victim].phase
        IN  CASE thread'[t].at = "stopping" -> phase = "running"
              [] thread'[t].at = "draining" -> phase = "draining"
              [] OTHER -> phase \in {"joining", "leaving"}
    BY <2>1, <2>3, <2>4
  <2>6. \A e \in entry' : e.session # thread'[t].victim
    BY <2>1 DEF Owners
  <2>7. \A u \in Threads : Halting(u)' /\ thread'[u].victim = thread'[t].victim => u = t
    BY <1>3, <2>1 DEF Owners
  <2>8. thread'[t].victim # 0
    BY <2>1, <2>2 DEF Sessions
  <2> QED BY <2>5, <2>6, <2>7, <2>8
<1>6. \A e \in entry' : e.session # 0 => session'[e.session].phase = "running"
  <2> SUFFICES ASSUME NEW e \in entry', e.session # 0
               PROVE  session'[e.session].phase = "running"
    OBVIOUS
  <2>1. PICK d \in entry : d.session = e.session
    OBVIOUS
  <2>2. d.session \in Sessions /\ session[d.session].phase = "running"
    BY <2>1 DEF Owners, Types, Entry
  <2> QED BY <1>1, <2>1, <2>2
<1>7. \A r \in Sessions : Alive(r)' =>
        \/ \E e \in entry' : e.session = r
        \/ \E t \in Threads : Halting(t)' /\ thread'[t].victim = r
  BY <1>2, <1>3 DEF Owners
<1>8. \A r \in Sessions : ~ Alive(r)' =>
        /\ session'[r].writing = 0 /\ session'[r].open = {} /\ session'[r].bus = <<>>
        /\ session'[r].storing = 0
        /\ session'[r].phase = "unused" => ~ session'[r].drained
  BY <1>1, <1>2 DEF Owners
<1> QED BY <1>5, <1>6, <1>7, <1>8 DEF Owners

(* What splitmuxsink does to a session: it may write a file nobody had, and*)
(* the messages it posts are about that one or files already under way.    *)
LEMMA MuxerKeeps ==
  ASSUME IInv, NEW s \in Sessions, NEW n \in Recording, NEW new \in SUBSET Files,
         session' = [session EXCEPT ![s] = n], Alive(s),
         n.phase = session[s].phase, n.storing = session[s].storing,
         n.open = session[s].open, Once(n),
         Under(n) \subseteq Under(session[s]) \cup new,
         \A f \in new : madeBy[f] = 0,
         madeBy' \in [Files -> Sessions \cup {0}],
         \A f \in Files : madeBy'[f] = IF f \in new THEN s ELSE madeBy[f],
         disk' = disk \cup new,
         abandoned \subseteq abandoned', abandoned' \subseteq abandoned \cup {s},
         s \notin abandoned' => ClosedLater(n),
         UNCHANGED <<entry, applying, mutex, thread, worker, running, rows, asked, kept,
                     dropped, removed>>
  PROVE  IInv'
<1>1. Types /\ Turns /\ Owners /\ OnTheWay /\ Arrived /\ Promised /\ Closes
  BY DEF IInv
<1>2. /\ session' \in [Sessions -> Recording] /\ session'[s] = n
      /\ \A r \in Sessions : r # s => session'[r] = session[r]
  BY <1>1, Changed
<1>3. /\ Pending' = Pending /\ Flushed' = Flushed /\ Settled' = Settled
      /\ Intact' = Intact /\ BeforeShutdown' = BeforeShutdown
      /\ \A t \in Threads : Halting(t)' = Halting(t)
  BY DEF Pending, Flushed, Settled, Intact, BeforeShutdown, Halting
<1>4. Types'
  BY <1>1, <1>2 DEF Types
<1>5. Turns'
  BY <1>1, <1>3 DEF Turns
<1>6. Owners'
  BY <1>1, OwnersStay
<1>7. OnTheWay'
  <2>1. \A r \in Sessions : Once(session'[r])
    BY <1>1, <1>2 DEF OnTheWay
  <2>2. ASSUME NEW r \in Sessions, NEW f \in Under(session'[r])
        PROVE  /\ madeBy'[f] = r /\ f \in disk' /\ rows'[f] # "complete" /\ f \notin Settled'
    <3>1. CASE f \in Under(session[r])
      <4>1. madeBy[f] = r /\ f \in disk /\ rows[f] # "complete" /\ f \notin Settled
        BY <1>1, <3>1 DEF OnTheWay
      <4>2. f \in Files /\ f \notin new
        BY <1>1, <4>1 DEF Types, Sessions
      <4> QED BY <1>3, <4>1, <4>2
    <3>2. CASE f \notin Under(session[r])
      <4>1. r = s /\ f \in new
        BY <1>2, <3>2
      <4>2. f \notin Settled /\ rows[f] = "none"
        BY <1>1, <4>1 DEF Arrived
      <4> QED BY <1>3, <4>1, <4>2
    <3> QED BY <3>1, <3>2
  <2>3. ASSUME NEW r \in Sessions, session'[r].storing # 0
        PROVE  LET f == session'[r].storing
               IN  madeBy'[f] = r /\ f \in disk' /\ rows'[f] = "complete" /\ f \notin Settled'
    <3> DEFINE f == session[r].storing
    <3>1. session'[r].storing = f
      BY <1>2
    <3>2. madeBy[f] = r /\ f \in disk /\ rows[f] = "complete" /\ f \notin Settled
      BY <1>1, <2>3, <3>1 DEF OnTheWay
    <3>3. f \in Files /\ f \notin new
      BY <1>1, <3>2 DEF Types, Sessions
    <3> QED BY <1>3, <3>1, <3>2, <3>3
  <2> QED BY <2>1, <2>2, <2>3 DEF OnTheWay
<1>8. Arrived'
  <2>1. \A f \in Pending' : rows'[f] = "complete" /\ f \in disk'
    BY <1>1, <1>3 DEF Arrived
  <2>2. Pending' \cap (Flushed' \cup kept' \cup dropped' \cup worker'.batch) = {}
    BY <1>1, <1>3 DEF Arrived
  <2>3. \A f \in Files : madeBy'[f] = 0 => f \notin Settled' \cup asked' /\ rows'[f] = "none"
    BY <1>1, <1>3 DEF Arrived, Sessions
  <2> QED BY <2>1, <2>2, <2>3 DEF Arrived
<1>9. Promised'
  <2>1. \A f \in asked : f \notin new
    BY <1>1 DEF Types, Arrived
  <2>2. \A f \in asked, r \in Sessions :
          f \in Under(session'[r]) \cup {session'[r].storing}
            => f \in Under(session[r]) \cup {session[r].storing}
    BY <1>2, <2>1
  <2>3. Intact' => \A e \in entry' : \A f \in asked' :
          \/ f \in e.gate.saves
          \/ f \notin e.gate.held /\ \A r \in Sessions :
                                 f \notin Under(session'[r]) \cup {session'[r].storing}
    BY <1>1, <1>3, <2>2 DEF Promised
  <2> QED BY <1>1, <1>3, <2>3 DEF Promised
<1>10. Closes'
  <2>1. \A r \in Sessions \ abandoned' : ClosedLater(session'[r])
    BY <1>1, <1>2 DEF Closes
  <2>2. ASSUME NEW f \in Files, rows'[f] = "recording"
        PROVE  madeBy'[f] \in abandoned' \/ f \in session'[madeBy'[f]].open
    <3>1. f \notin new
      BY <1>1, <2>2 DEF Arrived
    <3>2. madeBy'[f] = madeBy[f] /\ madeBy[f] \in Sessions
      BY <1>1, <2>2, <3>1 DEF Types, Arrived
    <3>3. madeBy[f] \in abandoned \/ f \in session[madeBy[f]].open
      BY <1>1, <2>2 DEF Closes
    <3> QED BY <1>2, <3>2, <3>3
  <2> QED BY <2>1, <2>2 DEF Closes
<1> QED BY <1>4, <1>5, <1>6, <1>7, <1>8, <1>9, <1>10 DEF IInv

-----------------------------------------------------------------------------
(* splitmuxsink.  The next file is the first nobody has written.           *)
LEMMA Least ==
  ASSUME NEW T \in SUBSET Nat, T # {}
  PROVE  \E x \in T : \A y \in T : x <= y
<1> DEFINE R == {p \in Nat \X Nat : p[1] < p[2]}
<1>1. IsWellFoundedOn(OpToRel(<, Nat), Nat)
  BY NatLessThanWellFounded
<1>2. R = OpToRel(<, Nat)
  BY DEF OpToRel
<1>3. IsWellFoundedOn(R, Nat)
  BY <1>1, <1>2
<1> HIDE DEF R
<1>4. PICK x \in T : \A y \in T : ~ (<<y, x>> \in R)
  BY <1>3, WFMin
<1>5. \A y \in T : ~ (y < x)
  BY <1>4 DEF R
<1> QED BY <1>5

LEMMA NextIsFresh ==
  ASSUME Types, Fresh # {}
  PROVE  NextFile \in Files /\ madeBy[NextFile] = 0 /\ NextFile # 0
<1>1. Fresh \in SUBSET Nat
  BY RecorderAssumption DEF Fresh, Files
<1>2. \E f \in Fresh : \A g \in Fresh : f <= g
  BY <1>1, Least
<1>3. NextFile \in Fresh
  BY <1>2 DEF NextFile
<1> QED BY <1>3 DEF Fresh, Files

LEMMA OpenFirstStep == ASSUME IInv, NEW s \in Sessions, OpenFirst(s) PROVE IInv'
<1> DEFINE x == session[s]
           g == NextFile
           m == <<"opened", g>>
           b == x.bus
           n == [x EXCEPT !.writing = g, !.bus = b \o <<m>>]
<1>1. Types /\ Owners /\ OnTheWay /\ Arrived /\ Closes
  BY DEF IInv
<1>2. g \in Files /\ madeBy[g] = 0 /\ g # 0
  BY <1>1, NextIsFresh DEF OpenFirst
<1>3. x \in Recording /\ b \in Seq(Message) /\ m \in Message
  BY <1>1, <1>2, Kinds DEF Message
<1>4. session' = [session EXCEPT ![s] = n]
  BY <1>1 DEF OpenFirst, Post, Types
<1>5. x.phase = "running" /\ x.writing = 0
  BY DEF OpenFirst
<1>6. madeBy' \in [Files -> Sessions \cup {0}]
      /\ \A f \in Files : madeBy'[f] = IF f \in {g} THEN s ELSE madeBy[f]
  BY <1>1, <1>2 DEF OpenFirst, Types
<1>7. Once(x) /\ g \notin Under(x)
  BY <1>1, <1>2 DEF OnTheWay, Sessions
<1>8. s \notin abandoned => ClosedLater(x)
  BY <1>1 DEF Closes
<1> DEFINE c == b \o <<m>>
<1>9. c \in Seq(Message) /\ \E p \in Nat : Posted(c, b, m, p)
  BY <1>3, PostedOne
<1>10. m[1] = "opened" /\ m[2] = g
  OBVIOUS
<1> HIDE DEF m, c
<1>11. /\ n \in Recording /\ n.bus = c /\ n.writing = g /\ n.open = x.open
       /\ n.phase = x.phase /\ n.storing = x.storing /\ n.drained = x.drained
  BY <1>2, <1>3, <1>9 DEF Recording, c
<1>12. \A i \in DOMAIN b : b[i] \in Message /\ b[i][2] # g
  BY <1>1, <1>2, <1>7, Kinds DEF Under
<1>13. g \notin x.open
  BY <1>2, <1>7 DEF Under
<1> HIDE DEF n, x, b, g
<1>14. PICK p \in Nat : Posted(c, b, m, p)
  BY <1>9
<1>14a. /\ DOMAIN c = DOMAIN b \cup {p} /\ c[p] = m
       /\ \A i \in DOMAIN b : c[i] = b[i]
  BY <1>14 DEF Posted
<1>15. Under(n) \subseteq Under(x) \cup {g}
  <2>1. n.writing = g /\ n.open = x.open /\ n.bus = c
    BY <1>11
  <2>2. \A i \in DOMAIN c : c[i][2] \in {b[j][2] : j \in DOMAIN b} \cup {g}
    BY <1>10, <1>14a
  <2> QED BY <2>1, <2>2 DEF Under, b
<1>16. Once(n)
  <2>1. \A i, j \in DOMAIN c : i # j /\ c[i] = c[j] => c[i][1] \notin {"opened", "closed"}
    BY <1>7, <1>10, <1>12, <1>14 DEF Once, b, Posted
  <2>2. ASSUME NEW i \in DOMAIN c
        PROVE  /\ c[i][1] \in {"opened", "closed"} => c[i][2] # 0
               /\ c[i][1] = "opened" => c[i][2] \notin x.open
               /\ c[i] # <<"closed", g>>
               /\ c[i][1] = "eos" => c[i] = <<"eos", 0>>
    <3>1. CASE i \in DOMAIN b
      BY <1>7, <1>12, <1>14a, <3>1 DEF Once, b
    <3>2. CASE c[i] = m
      BY <1>2, <1>10, <1>13, <3>2 DEF m
    <3> QED BY <1>14, <3>1, <3>2 DEF Posted
  <2> QED BY <1>11, <2>1, <2>2 DEF Once
<1>17. ASSUME s \notin abandoned  PROVE ClosedLater(n)
  <2>1. ClosedLater(x)
    BY <1>8, <1>17
  <2>2. ASSUME NEW f \in n.open
        PROVE  f = n.writing \/ \E j \in DOMAIN n.bus : n.bus[j] = <<"closed", f>>
    <3>1. f \in x.open /\ f # 0
      BY <1>3, <1>11, <2>2 DEF Recording, Files
    <3>2. PICK j \in DOMAIN b : b[j] = <<"closed", f>>
      BY <1>5, <2>1, <3>1 DEF ClosedLater, b
    <3> QED BY <1>11, <1>14, <3>2 DEF Posted
  <2>3. ASSUME NEW i \in DOMAIN n.bus, n.bus[i][1] = "opened"
        PROVE  \/ n.bus[i][2] = n.writing
               \/ \E j \in DOMAIN n.bus : j > i /\ n.bus[j] = <<"closed", n.bus[i][2]>>
    <3>1. CASE i \in DOMAIN b
      <4>1. b[i][2] # 0
        BY <1>7, <1>11, <1>14, <2>3, <3>1 DEF Once, b, Posted
      <4>2. PICK j \in DOMAIN b : j > i /\ b[j] = <<"closed", b[i][2]>>
        BY <1>5, <1>11, <1>14, <2>1, <2>3, <3>1, <4>1 DEF ClosedLater, b, Posted
      <4> QED BY <1>11, <1>14, <3>1, <4>2 DEF Posted
    <3>2. CASE c[i] = m
      BY <1>10, <1>11, <3>2
    <3> QED BY <1>11, <1>14, <3>1, <3>2 DEF Posted
  <2>4. \A i \in DOMAIN n.bus : n.bus[i][1] \notin {"error", "eos"}
    BY <1>5, <1>10, <1>11, <1>14a, <2>1 DEF ClosedLater, b
  <2>5. ~ n.drained /\ n.phase \notin {"joining", "leaving"}
    BY <1>5, <1>11, <2>1 DEF ClosedLater
  <2> QED BY <2>2, <2>3, <2>4, <2>5 DEF ClosedLater
<1>18. Alive(s)
  BY <1>5 DEF Alive, x
<1>19. /\ {g} \in SUBSET Files /\ \A f \in {g} : madeBy[f] = 0
       /\ disk' = disk \cup {g} /\ abandoned' = abandoned
       /\ UNCHANGED <<entry, applying, mutex, thread, worker, running, rows, asked, kept,
                      dropped, removed>>
  BY <1>2 DEF OpenFirst, g, historyVars
<1>20. Under(n) \subseteq Under(session[s]) \cup {g} /\ n.phase = session[s].phase
       /\ n.storing = session[s].storing /\ n.open = session[s].open
  BY <1>11, <1>15 DEF x
<1> QED BY <1>4, <1>6, <1>11, <1>16, <1>17, <1>18, <1>19, <1>20, MuxerKeeps

LEMMA CutStep == ASSUME IInv, NEW s \in Sessions, Cut(s) PROVE IInv'
<1> DEFINE x == session[s]
           g == NextFile
           w == x.writing
           m == <<"opened", g>>
           k == <<"closed", w>>
           b == x.bus
<1>1. Types /\ Owners /\ OnTheWay /\ Arrived /\ Closes
  BY DEF IInv
<1>2. g \in Files /\ madeBy[g] = 0 /\ g # 0
  BY <1>1, NextIsFresh DEF Cut
<1>3. x \in Recording /\ b \in Seq(Message) /\ w \in Files /\ w # 0
  BY <1>1, Kinds DEF Recording, Cut
<1>4. m \in Message /\ k \in Message /\ m # k
  BY <1>2, <1>3 DEF Message
<1>5. x.phase = "running"
  BY DEF Cut
<1>6. madeBy' \in [Files -> Sessions \cup {0}]
      /\ \A f \in Files : madeBy'[f] = IF f \in {g} THEN s ELSE madeBy[f]
  BY <1>1, <1>2 DEF Cut, Types
<1>7. Once(x) /\ g \notin Under(x)
  BY <1>1, <1>2 DEF OnTheWay, Sessions
<1>8. s \notin abandoned => ClosedLater(x)
  BY <1>1 DEF Closes
<1>9. PICK messages \in {<<m, k>>, <<k, m>>} :
        session' = [session EXCEPT ![s] = [x EXCEPT !.writing = g, !.bus = b \o messages]]
  BY <1>1 DEF Cut, Post, Types
<1> DEFINE c == b \o messages
           n == [x EXCEPT !.writing = g, !.bus = c]
<1>10. c \in Seq(Message)
       /\ \E p, q \in Nat : PostedBoth(c, b, m, k, p, q) \/ PostedBoth(c, b, k, m, p, q)
  <2>1. CASE messages = <<m, k>>
    BY <1>3, <1>4, <2>1, PostedTwo
  <2>2. CASE messages = <<k, m>>
    BY <1>3, <1>4, <2>2, PostedTwo
  <2> QED BY <2>1, <2>2
<1>11. m[1] = "opened" /\ m[2] = g /\ k[1] = "closed" /\ k[2] = w
  OBVIOUS
<1>12. g # w /\ g \notin x.open /\ \A i \in DOMAIN b : b[i] # k
  BY <1>2, <1>3, <1>7 DEF Under, Once
<1> HIDE DEF m, k, c
<1>13. /\ n \in Recording /\ n.bus = c /\ n.writing = g /\ n.open = x.open
       /\ n.phase = x.phase /\ n.storing = x.storing /\ n.drained = x.drained
  BY <1>2, <1>3, <1>10 DEF Recording
<1>14. \A i \in DOMAIN b : b[i] \in Message /\ b[i][2] # g
  BY <1>1, <1>2, <1>7, Kinds DEF Under
<1>15. session' = [session EXCEPT ![s] = n]
  BY <1>9 DEF c
<1> HIDE DEF n, x, b, g, w
<1>16. PICK p, q \in Nat : PostedBoth(c, b, m, k, p, q) \/ PostedBoth(c, b, k, m, p, q)
  BY <1>10
<1>17. PICK o, z : /\ DOMAIN c = DOMAIN b \cup {o, z} /\ c[o] = m /\ c[z] = k
                   /\ \A i \in DOMAIN b : i < z /\ c[i] = b[i]
  BY <1>16 DEF PostedBoth
<1>18. /\ DOMAIN c = DOMAIN b \cup {o, z} /\ c[o] = m /\ c[z] = k
       /\ \A i \in DOMAIN b : c[i] = b[i]
  BY <1>17
<1>19. Under(n) \subseteq Under(x) \cup {g}
  <2>1. n.writing = g /\ n.open = x.open /\ n.bus = c
    BY <1>13
  <2>2. \A i \in DOMAIN c : c[i][2] \in {b[j][2] : j \in DOMAIN b} \cup {g, w}
    BY <1>11, <1>18
  <2> QED BY <1>3, <2>1, <2>2 DEF Under, b, w
<1>20. Once(n)
  <2>1. ASSUME NEW i \in DOMAIN c, NEW j \in DOMAIN c, i # j, c[i] = c[j]
        PROVE  c[i][1] \notin {"opened", "closed"}
    <3>1. CASE i \in DOMAIN b /\ j \in DOMAIN b
      BY <1>7, <1>18, <2>1, <3>1 DEF Once, b
    <3>2. CASE i \in DOMAIN b /\ j \notin DOMAIN b
      <4>1. c[i] # m /\ c[i] # k
        BY <1>11, <1>12, <1>14, <1>18, <3>2
      <4> QED BY <1>18, <2>1, <3>2, <4>1
    <3>3. CASE i \notin DOMAIN b /\ j \in DOMAIN b
      <4>1. c[j] # m /\ c[j] # k
        BY <1>11, <1>12, <1>14, <1>18, <3>3
      <4> QED BY <1>18, <2>1, <3>3, <4>1
    <3>4. CASE i \notin DOMAIN b /\ j \notin DOMAIN b
      BY <1>4, <1>18, <2>1, <3>4
    <3> QED BY <3>1, <3>2, <3>3, <3>4
  <2>2. ASSUME NEW i \in DOMAIN c
        PROVE  /\ c[i][1] \in {"opened", "closed"} => c[i][2] # 0
               /\ c[i][1] = "opened" => c[i][2] \notin x.open
               /\ c[i] # <<"closed", g>>
               /\ c[i][1] = "eos" => c[i] = <<"eos", 0>>
    <3>1. CASE i \in DOMAIN b
      BY <1>7, <1>14, <1>18, <3>1 DEF Once, b
    <3>2. CASE c[i] = m
      BY <1>2, <1>11, <1>12, <3>2 DEF m
    <3>3. CASE c[i] = k
      BY <1>3, <1>11, <1>12, <3>3 DEF k
    <3> QED BY <1>18, <3>1, <3>2, <3>3
  <2> QED BY <1>13, <2>1, <2>2 DEF Once
<1>21. ASSUME s \notin abandoned  PROVE ClosedLater(n)
  <2>1. ClosedLater(x)
    BY <1>8, <1>21
  <2>2. ASSUME NEW f \in n.open
        PROVE  f = n.writing \/ \E j \in DOMAIN n.bus : n.bus[j] = <<"closed", f>>
    <3>1. f = w \/ \E j \in DOMAIN b : b[j] = <<"closed", f>>
      BY <1>13, <2>1, <2>2 DEF ClosedLater, b, w
    <3> QED BY <1>13, <1>18, <3>1 DEF k
  <2>3. ASSUME NEW i \in DOMAIN n.bus, n.bus[i][1] = "opened"
        PROVE  \/ n.bus[i][2] = n.writing
               \/ \E j \in DOMAIN n.bus : j > i /\ n.bus[j] = <<"closed", n.bus[i][2]>>
    <3>1. CASE i \in DOMAIN b
      <4>1. b[i][2] = w \/ \E j \in DOMAIN b : j > i /\ b[j] = <<"closed", b[i][2]>>
        BY <1>13, <1>18, <2>1, <2>3, <3>1 DEF ClosedLater, b, w
      <4>2. n.bus[i] = b[i]
        BY <1>13, <1>18, <3>1
      <4>3. z > i /\ z \in DOMAIN n.bus /\ n.bus[z] = <<"closed", w>>
        BY <1>13, <1>17, <3>1 DEF k
      <4>4. \A j \in DOMAIN b : j \in DOMAIN n.bus /\ n.bus[j] = b[j]
        BY <1>13, <1>18
      <4> QED BY <4>1, <4>2, <4>3, <4>4
    <3>2. CASE c[i] = m
      BY <1>11, <1>13, <3>2
    <3>3. CASE c[i] = k
      BY <1>11, <1>13, <2>3, <3>3
    <3> QED BY <1>13, <1>18, <3>1, <3>2, <3>3
  <2>4. \A i \in DOMAIN n.bus : n.bus[i][1] \notin {"error", "eos"}
    BY <1>5, <1>11, <1>13, <1>18, <2>1 DEF ClosedLater, b
  <2>5. ~ n.drained /\ n.phase \notin {"joining", "leaving"}
    BY <1>5, <1>13, <2>1 DEF ClosedLater
  <2> QED BY <2>2, <2>3, <2>4, <2>5 DEF ClosedLater
<1>22. Alive(s)
  BY <1>5 DEF Alive, x
<1>23. /\ {g} \in SUBSET Files /\ \A f \in {g} : madeBy[f] = 0
       /\ disk' = disk \cup {g} /\ abandoned' = abandoned
       /\ UNCHANGED <<entry, applying, mutex, thread, worker, running, rows, asked, kept,
                      dropped, removed>>
  BY <1>2 DEF Cut, g, historyVars
<1>24. Under(n) \subseteq Under(session[s]) \cup {g} /\ n.phase = session[s].phase
       /\ n.storing = session[s].storing /\ n.open = session[s].open
  BY <1>13, <1>19 DEF x
<1> QED BY <1>6, <1>13, <1>15, <1>20, <1>21, <1>22, <1>23, <1>24, MuxerKeeps

(* EOS behind the end of the last file, if one is being written.           *)
LEMMA FinishStep == ASSUME IInv, NEW s \in Sessions, Finish(s) PROVE IInv'
<1> DEFINE x == session[s]
           w == x.writing
           k == <<"closed", w>>
           e == <<"eos", 0>>
           b == x.bus
           c == IF w = 0 THEN b \o <<e>> ELSE b \o <<k, e>>
           n == [x EXCEPT !.writing = 0, !.bus = c]
<1>1. Types /\ Owners /\ OnTheWay /\ Arrived /\ Closes
  BY DEF IInv
<1>2. x \in Recording /\ b \in Seq(Message) /\ w \in Files \cup {0}
  BY <1>1, Kinds DEF Recording
<1>3. e \in Message /\ (w # 0 => k \in Message) /\ e # k
  BY <1>2 DEF Message
<1>4. x.phase = "draining" /\ ~ x.drained /\ \A i \in DOMAIN b : b[i] # e
  BY DEF Finish
<1>5. Once(x)
  BY <1>1 DEF OnTheWay
<1>6. s \notin abandoned => ClosedLater(x)
  BY <1>1 DEF Closes
<1>7. session' = [session EXCEPT ![s] = n]
  <2>1. (IF w = 0 THEN <<>> ELSE <<k>>) \o <<e>> = IF w = 0 THEN <<e>> ELSE <<k, e>>
    <3> HIDE DEF k, e
    <3>1. /\ <<e>> \in Seq(Message)
          /\ w # 0 => <<k>> \in Seq(Message) /\ <<k, e>> \in Seq(Message)
      BY <1>3
    <3>2. <<>> \o <<e>> = <<e>>
      BY <3>1, ConcatEmptySeq
    <3>3. ASSUME w # 0  PROVE <<k>> \o <<e>> = <<k, e>>
      <4>1. <<k>> \o <<e>> \in Seq(Message) /\ Len(<<k>> \o <<e>>) = 2
            /\ (<<k>> \o <<e>>)[1] = k /\ (<<k>> \o <<e>>)[2] = e
        BY <3>1, <3>3, ConcatProperties
      <4>2. Len(<<k, e>>) = 2 /\ <<k, e>>[1] = k /\ <<k, e>>[2] = e
        OBVIOUS
      <4>3. \A i \in 1 .. 2 : i = 1 \/ i = 2
        OBVIOUS
      <4>4. \A i \in 1 .. Len(<<k>> \o <<e>>) : (<<k>> \o <<e>>)[i] = <<k, e>>[i]
        BY <4>1, <4>2, <4>3
      <4>5. Len(<<k>> \o <<e>>) = Len(<<k, e>>)
        BY <4>1, <4>2
      <4> QED BY <3>1, <3>3, <4>1, <4>4, <4>5, SeqEqual
    <3> QED BY <3>2, <3>3
  <2>2. session' = [session EXCEPT ![s] = [x EXCEPT !.writing = 0, !.bus =
                      b \o ((IF w = 0 THEN <<>> ELSE <<k>>) \o <<e>>)]]
    BY <1>1 DEF Finish, Post, Types
  <2> QED BY <2>1, <2>2
<1>8. c \in Seq(Message)
      /\ \E p, q \in Nat : IF w = 0 THEN Posted(c, b, e, q) ELSE PostedBoth(c, b, k, e, p, q)
  <2>1. CASE w = 0
    BY <1>2, <1>3, <2>1, PostedOne
  <2>2. CASE w # 0
    BY <1>2, <1>3, <2>2, PostedTwo
  <2> QED BY <2>1, <2>2
<1>9. e[1] = "eos" /\ k[1] = "closed" /\ k[2] = w /\ e[2] = 0
  OBVIOUS
<1>10. w # 0 => \A i \in DOMAIN b : b[i] # k
  BY <1>5 DEF Once
<1> HIDE DEF k, e, c
<1>11. /\ n \in Recording /\ n.bus = c /\ n.writing = 0 /\ n.open = x.open
       /\ n.phase = x.phase /\ n.storing = x.storing /\ n.drained = x.drained
  BY <1>2, <1>8 DEF Recording
<1>12. \A i \in DOMAIN b : b[i] \in Message
  BY <1>1, Kinds
<1> HIDE DEF n, x, b, w
<1>13. PICK p, q \in Nat : IF w = 0 THEN Posted(c, b, e, q) ELSE PostedBoth(c, b, k, e, p, q)
  BY <1>8
<1>14. PICK z : /\ DOMAIN c = IF w = 0 THEN DOMAIN b \cup {q} ELSE DOMAIN b \cup {z, q}
                /\ c[q] = e /\ q = Len(c) /\ (w # 0 => c[z] = k)
                /\ \A i \in DOMAIN b : (w # 0 => i < z) /\ c[i] = b[i]
  BY <1>13 DEF Posted, PostedBoth
<1>15. /\ \A i \in DOMAIN c : i \in DOMAIN b \/ i = q \/ (w # 0 /\ c[i] = k /\ i = z)
       /\ \A i \in DOMAIN b : i \in DOMAIN c /\ c[i] = b[i]
       /\ w # 0 => z \in DOMAIN c /\ c[z] = k
       /\ c[q] = e
  <2>1. CASE w = 0  BY <1>14, <2>1
  <2>2. CASE w # 0  BY <1>14, <2>2
  <2> QED BY <2>1, <2>2
<1>16. Under(n) \subseteq Under(x)
  <2>1. n.writing = 0 /\ n.open = x.open /\ n.bus = c
    BY <1>11
  <2>2. \A i \in DOMAIN c : c[i][2] \in {b[j][2] : j \in DOMAIN b} \cup {0, w}
    BY <1>9, <1>15
  <2> QED BY <2>1, <2>2 DEF Under, b, w
<1>17. Once(n)
  <2>1. ASSUME NEW i \in DOMAIN c, NEW j \in DOMAIN c, i # j, c[i] = c[j]
        PROVE  c[i][1] \notin {"opened", "closed"}
    <3>1. CASE i \in DOMAIN b /\ j \in DOMAIN b
      BY <1>5, <1>15, <2>1, <3>1 DEF Once, b
    <3>2. CASE c[i] = e
      BY <1>9, <3>2
    <3>3. CASE c[j] = e
      BY <1>9, <2>1, <3>3
    <3>4. CASE i \notin DOMAIN b \/ j \notin DOMAIN b
      BY <1>10, <1>15, <2>1, <3>2, <3>3, <3>4
    <3> QED BY <3>1, <3>4
  <2>2. ASSUME NEW i \in DOMAIN c
        PROVE  /\ c[i][1] \in {"opened", "closed"} => c[i][2] # 0
               /\ c[i][1] = "opened" => c[i][2] \notin x.open
               /\ c[i][1] = "eos" => c[i] = <<"eos", 0>>
    <3>1. CASE i \in DOMAIN b
      BY <1>5, <1>15, <3>1 DEF Once, b
    <3>2. CASE i = q
      BY <1>9, <1>15, <3>2 DEF e
    <3>3. CASE w # 0 /\ c[i] = k
      BY <1>9, <3>3
    <3> QED BY <1>15, <3>1, <3>2, <3>3
  <2> QED BY <1>11, <2>1, <2>2 DEF Once
<1>18. ASSUME s \notin abandoned  PROVE ClosedLater(n)
  <2>1. ClosedLater(x)
    BY <1>6, <1>18
  <2>2. ASSUME NEW f \in n.open
        PROVE  \E j \in DOMAIN n.bus : n.bus[j] = <<"closed", f>>
    <3>1. f = w \/ \E j \in DOMAIN b : b[j] = <<"closed", f>>
      BY <1>11, <2>1, <2>2 DEF ClosedLater, b, w
    <3>2. f # 0
      BY <1>2, <1>11, <2>2 DEF Recording, Files
    <3> QED BY <1>11, <1>15, <3>1, <3>2 DEF k
  <2>3. ASSUME NEW i \in DOMAIN n.bus, n.bus[i][1] = "opened"
        PROVE  \E j \in DOMAIN n.bus : j > i /\ n.bus[j] = <<"closed", n.bus[i][2]>>
    <3>1. i \in DOMAIN b
      BY <1>9, <1>11, <1>15, <2>3
    <3>2. b[i][2] = w \/ \E j \in DOMAIN b : j > i /\ b[j] = <<"closed", b[i][2]>>
      BY <1>11, <1>15, <2>1, <2>3, <3>1 DEF ClosedLater, b, w
    <3>3. n.bus[i] = b[i] /\ b[i][2] # 0
      BY <1>5, <1>11, <1>15, <2>3, <3>1 DEF Once, b
    <3>4. w # 0 => z > i /\ z \in DOMAIN n.bus /\ n.bus[z] = <<"closed", w>>
      BY <1>11, <1>14, <1>15, <3>1 DEF k
    <3>5. \A j \in DOMAIN b : j \in DOMAIN n.bus /\ n.bus[j] = b[j]
      BY <1>11, <1>15
    <3> QED BY <3>2, <3>3, <3>4, <3>5
  <2>4. ASSUME NEW i \in DOMAIN n.bus
        PROVE  n.bus[i][1] # "error" /\ (n.bus[i][1] = "eos" => i = Len(n.bus))
    <3>1. CASE i \in DOMAIN b
      <4>1. b[i][1] # "error" /\ b[i][1] # "eos"
        BY <1>4, <1>5, <2>1, <3>1 DEF ClosedLater, Once, b, e
      <4> QED BY <1>11, <1>15, <3>1, <4>1
    <3>2. CASE i = q
      BY <1>9, <1>11, <1>14, <3>2
    <3>3. CASE w # 0 /\ c[i] = k
      BY <1>9, <1>11, <3>3
    <3> QED BY <1>11, <1>15, <3>1, <3>2, <3>3
  <2>5. ~ n.drained /\ n.phase \notin {"joining", "leaving"} /\ n.phase # "running"
    BY <1>4, <1>11 DEF x
  <2> QED BY <1>11, <2>2, <2>3, <2>4, <2>5 DEF ClosedLater
<1>19. Alive(s)
  BY <1>4 DEF Alive, x
<1>20. /\ {} \in SUBSET Files /\ disk' = disk \cup {} /\ abandoned' = abandoned
       /\ madeBy' \in [Files -> Sessions \cup {0}]
       /\ \A f \in Files : madeBy'[f] = IF f \in {} THEN s ELSE madeBy[f]
       /\ UNCHANGED <<entry, applying, mutex, thread, worker, running, rows, asked, kept,
                      dropped, removed>>
  BY <1>1 DEF Finish, historyVars, Types
<1>21. Under(n) \subseteq Under(session[s]) \cup {} /\ n.phase = session[s].phase
       /\ n.storing = session[s].storing /\ n.open = session[s].open
  BY <1>11, <1>16 DEF x
<1> QED BY <1>7, <1>11, <1>17, <1>18, <1>19, <1>20, <1>21, MuxerKeeps

LEMMA BreakStep == ASSUME IInv, NEW s \in Sessions, Break(s) PROVE IInv'
<1> DEFINE x == session[s]
           e == <<"error", 0>>
           b == x.bus
           c == b \o <<e>>
           n == [x EXCEPT !.broken = TRUE, !.bus = c]
<1>1. Types /\ Owners /\ OnTheWay
  BY DEF IInv
<1>2. x \in Recording /\ b \in Seq(Message) /\ e \in Message
  BY <1>1, Kinds DEF Message
<1>3. Once(x) /\ x.phase \in {"running", "draining"}
  BY <1>1 DEF OnTheWay, Break
<1>4. session' = [session EXCEPT ![s] = n]
  BY <1>1 DEF Break, Post, Types
<1>5. c \in Seq(Message) /\ \E p \in Nat : Posted(c, b, e, p)
  BY <1>2, PostedOne
<1>6. e[1] = "error" /\ e[2] = 0
  OBVIOUS
<1> HIDE DEF e, c
<1>7. /\ n \in Recording /\ n.bus = c /\ n.writing = x.writing /\ n.open = x.open
      /\ n.phase = x.phase /\ n.storing = x.storing
  BY <1>2, <1>5 DEF Recording
<1> HIDE DEF n, x, b
<1>8. PICK p : /\ DOMAIN c = DOMAIN b \cup {p} /\ c[p] = e
               /\ \A i \in DOMAIN b : c[i] = b[i]
  BY <1>5 DEF Posted
<1>9. Under(n) \subseteq Under(x)
  <2>1. \A i \in DOMAIN c : c[i][2] \in {b[j][2] : j \in DOMAIN b} \cup {0}
    BY <1>6, <1>8
  <2> QED BY <1>7, <2>1 DEF Under, b
<1>10. Once(n)
  <2>1. \A i, j \in DOMAIN c : i # j /\ c[i] = c[j] => c[i][1] \notin {"opened", "closed"}
    BY <1>3, <1>6, <1>8 DEF Once, b
  <2>2. \A i \in DOMAIN c : /\ c[i][1] \in {"opened", "closed"} => c[i][2] # 0
                            /\ c[i][1] = "opened" => c[i][2] \notin x.open
                            /\ c[i] = <<"closed", x.writing>> => x.writing = 0
                            /\ c[i][1] = "eos" => c[i] = <<"eos", 0>>
    BY <1>3, <1>6, <1>8 DEF Once, b
  <2> QED BY <1>7, <2>1, <2>2 DEF Once
<1>11. Alive(s)
  BY <1>3 DEF Alive, x
<1>12. /\ {} \in SUBSET Files /\ disk' = disk \cup {} /\ abandoned' = abandoned \cup {s}
       /\ madeBy' \in [Files -> Sessions \cup {0}]
       /\ \A f \in Files : madeBy'[f] = IF f \in {} THEN s ELSE madeBy[f]
       /\ UNCHANGED <<entry, applying, mutex, thread, worker, running, rows, asked, kept,
                      dropped, removed>>
  BY <1>1 DEF Break, historyVars, Types
<1>13. Under(n) \subseteq Under(session[s]) \cup {} /\ n.phase = session[s].phase
       /\ n.storing = session[s].storing /\ n.open = session[s].open
  BY <1>7, <1>9 DEF x
<1> QED BY <1>4, <1>7, <1>10, <1>11, <1>12, <1>13, MuxerKeeps

-----------------------------------------------------------------------------
(* The bus watcher.  Handling a message moves at most its own file along:  *)
(* from the bus into the open ones, or from there to the gate.             *)
LEMMA WatcherKeeps ==
  ASSUME IInv, NEW s \in Sessions, NEW n \in Recording, NEW f \in Files \cup {0},
         session' = [session EXCEPT ![s] = n], Alive(s),
         \/ n.phase = session[s].phase
         \/ session[s].phase = "joining" /\ n.phase = "leaving",
         Under(n) \subseteq Under(session[s]), Once(n), session[s].storing = 0,
         f # 0 => f \in Under(session[s]),
         n.storing # 0 => n.storing = f /\ f \notin Under(n) /\ rows'[f] = "complete",
         rows' \in [Files -> {"none", "recording", "complete"}],
         \A g \in Files : g # f => rows'[g] = rows[g],
         f # 0 /\ rows'[f] = "complete" => n.storing = f,
         f # 0 /\ rows'[f] = "recording" => s \in abandoned' \/ f \in n.open,
         \A g \in Files : g # f /\ g \in session[s].open => g \in n.open,
         abandoned \subseteq abandoned', abandoned' \subseteq abandoned \cup {s},
         s \notin abandoned' => ClosedLater(n),
         UNCHANGED <<entry, applying, mutex, thread, worker, running, madeBy, disk, asked,
                     kept, dropped, removed>>
  PROVE  IInv'
<1>1. Types /\ Turns /\ Owners /\ OnTheWay /\ Arrived /\ Promised /\ Closes
  BY DEF IInv
<1>2. /\ session' \in [Sessions -> Recording] /\ session'[s] = n
      /\ \A r \in Sessions : r # s => session'[r] = session[r]
  BY <1>1, Changed
<1>3. /\ Pending' = Pending /\ Flushed' = Flushed /\ Settled' = Settled
      /\ Intact' = Intact /\ BeforeShutdown' = BeforeShutdown
      /\ \A t \in Threads : Halting(t)' = Halting(t)
  BY DEF Pending, Flushed, Settled, Intact, BeforeShutdown, Halting
<1>4. /\ \A g \in Under(session[s]) : /\ madeBy[g] = s /\ g \in disk /\ rows[g] # "complete"
                                      /\ g \notin Settled
      /\ Under(session[s]) \subseteq Files
  BY <1>1 DEF OnTheWay, Types
<1>5. \A r \in Sessions : \A g \in Under(session[r]) : r # s => g # f
  BY <1>1, <1>4 DEF OnTheWay, Under
<1>6. Types'
  BY <1>1, <1>2 DEF Types
<1>7. Turns'
  BY <1>1, <1>3 DEF Turns
<1>8. Owners'
  BY <1>1, OwnersStay
<1>9. OnTheWay'
  <2>1. \A r \in Sessions : Once(session'[r])
    BY <1>1, <1>2 DEF OnTheWay
  <2>2. ASSUME NEW r \in Sessions, NEW g \in Under(session'[r])
        PROVE  /\ madeBy'[g] = r /\ g \in disk' /\ rows'[g] # "complete" /\ g \notin Settled'
    <3>1. g \in Under(session[r])
      BY <1>2
    <3>2. madeBy[g] = r /\ g \in disk /\ rows[g] # "complete" /\ g \notin Settled /\ g \in Files
      BY <1>1, <3>1 DEF OnTheWay, Types
    <3>3. rows'[g] # "complete"
      <4>1. CASE g # f
        BY <3>2, <4>1
      <4>2. CASE g = f
        <5>1. r = s /\ g # 0
          BY <1>5, <3>1, <4>2 DEF Under
        <5>2. g \in Under(n)
          BY <1>2, <5>1
        <5> QED BY <4>2, <5>1, <5>2
      <4> QED BY <4>1, <4>2
    <3> QED BY <1>3, <3>2, <3>3
  <2>3. ASSUME NEW r \in Sessions, session'[r].storing # 0
        PROVE  LET g == session'[r].storing
               IN  madeBy'[g] = r /\ g \in disk' /\ rows'[g] = "complete" /\ g \notin Settled'
    <3>1. CASE r = s
      <4>1. session'[r].storing = f /\ f # 0 /\ rows'[f] = "complete"
        BY <1>2, <2>3, <3>1
      <4> QED BY <1>3, <1>4, <3>1, <4>1
    <3>2. CASE r # s
      <4> DEFINE g == session[r].storing
      <4>1. session'[r].storing = g
        BY <1>2, <3>2
      <4>2. madeBy[g] = r /\ g \in disk /\ rows[g] = "complete" /\ g \notin Settled
        BY <1>1, <2>3, <4>1 DEF OnTheWay
      <4>3. g \in Files /\ (f # 0 => g # f)
        BY <1>1, <1>4, <4>2 DEF Types
      <4>4. g # 0
        BY <2>3, <4>1
      <4> QED BY <1>3, <4>1, <4>2, <4>3, <4>4
    <3> QED BY <3>1, <3>2
  <2> QED BY <2>1, <2>2, <2>3 DEF OnTheWay
<1>10. Arrived'
  <2>1. \A g \in Settled : g \in Files => rows'[g] = rows[g]
    <3>1. f # 0 => f \notin Settled
      BY <1>4
    <3>2. \A g \in Files : g # 0
      BY DEF Files
    <3> QED BY <3>1, <3>2
  <2>2. ASSUME NEW g \in Pending'  PROVE rows'[g] = "complete" /\ g \in disk'
    <3>1. g \in Pending /\ rows[g] = "complete" /\ g \in disk /\ g \in Settled /\ g \in Files
      BY <1>1, <1>3, <2>2 DEF Arrived, Settled, Types
    <3> QED BY <2>1, <3>1
  <2>3. Pending' \cap (Flushed' \cup kept' \cup dropped' \cup worker'.batch) = {}
    BY <1>1, <1>3 DEF Arrived
  <2>4. ASSUME NEW g \in Files, madeBy'[g] = 0
        PROVE  g \notin Settled' \cup asked' /\ rows'[g] = "none"
    <3>1. g \notin Settled \cup asked /\ rows[g] = "none"
      BY <1>1, <2>4 DEF Arrived
    <3>2. g # f
      BY <1>4, <2>4 DEF Sessions, Files
    <3> QED BY <1>3, <3>1, <3>2
  <2> QED BY <2>2, <2>3, <2>4 DEF Arrived
<1>11. Promised'
  <2>1. \A g \in asked, r \in Sessions :
          g \in Under(session'[r]) \cup {session'[r].storing}
            => g \in Under(session[r]) \cup {session[r].storing}
    BY <1>1, <1>2 DEF Types, Files
  <2>2. Intact' => \A e \in entry' : \A g \in asked' :
          \/ g \in e.gate.saves
          \/ g \notin e.gate.held /\ \A r \in Sessions :
                                 g \notin Under(session'[r]) \cup {session'[r].storing}
    BY <1>1, <1>3, <2>1 DEF Promised
  <2> QED BY <1>1, <1>3, <2>2 DEF Promised
<1>12. Closes'
  <2>1. \A r \in Sessions \ abandoned' : ClosedLater(session'[r])
    BY <1>1, <1>2 DEF Closes
  <2>2. ASSUME NEW g \in Files, rows'[g] = "recording"
        PROVE  madeBy'[g] \in abandoned' \/ g \in session'[madeBy'[g]].open
    <3>1. CASE g = f
      <4>1. f # 0 /\ madeBy[g] = s
        BY <1>4, <3>1 DEF Files
      <4> QED BY <1>2, <2>2, <3>1, <4>1
    <3>2. CASE g # f
      <4>1. rows[g] = "recording"
        BY <2>2, <3>2
      <4>2. madeBy[g] \in abandoned \/ g \in session[madeBy[g]].open
        BY <1>1, <4>1 DEF Closes
      <4>3. madeBy[g] \in Sessions
        BY <1>1, <4>1 DEF Types, Arrived
      <4> QED BY <1>2, <3>2, <4>2, <4>3
    <3> QED BY <3>1, <3>2
  <2> QED BY <2>1, <2>2 DEF Closes
<1> QED BY <1>6, <1>7, <1>8, <1>9, <1>10, <1>11, <1>12 DEF IInv

TakenOff(t, b) ==
  /\ 1 \in DOMAIN b
  /\ \A i \in DOMAIN t : i \in Nat /\ i + 1 \in DOMAIN b /\ i + 1 # 1 /\ t[i] = b[i + 1]
  /\ \A j \in DOMAIN b : j \in Nat /\ (j # 1 => j - 1 \in DOMAIN t /\ t[j - 1] = b[j])

LEMMA TakenIs ==
  ASSUME Types, NEW s \in Sessions, session[s].bus # <<>>
  PROVE  /\ TakenOff(Tail(session[s].bus), session[s].bus)
         /\ Head(session[s].bus) = session[s].bus[1] /\ session[s].bus[1] \in Message
         /\ Tail(session[s].bus) \in Seq(Message)
<1>1. PICK b \in Seq(Message) : b = session[s].bus
  BY Kinds
<1>2. /\ Tail(b) \in Seq(Message) /\ Len(b) \in Nat /\ Len(b) >= 1
      /\ DOMAIN b = 1 .. Len(b) /\ DOMAIN Tail(b) = 1 .. Len(b) - 1
      /\ Head(b) = b[1] /\ b[1] \in Message
      /\ \A i \in 1 .. Len(b) - 1 : Tail(b)[i] = b[i + 1]
  BY <1>1, Taken
<1> DEFINE t == Tail(b)
<1> HIDE DEF t
<1>3. PICK k \in Nat : k = Len(b) /\ k >= 1
  BY <1>2
<1>4. /\ DOMAIN b = 1 .. k /\ DOMAIN t = 1 .. k - 1
      /\ \A i \in 1 .. k - 1 : t[i] = b[i + 1]
  BY <1>2, <1>3 DEF t
<1>5. ASSUME NEW i \in DOMAIN t
      PROVE  i \in Nat /\ i + 1 \in DOMAIN b /\ i + 1 # 1 /\ t[i] = b[i + 1]
  BY <1>3, <1>4, <1>5
<1>6. ASSUME NEW j \in DOMAIN b
      PROVE  j \in Nat /\ (j # 1 => j - 1 \in DOMAIN t /\ t[j - 1] = b[j])
  <2>1. j \in 1 .. k
    BY <1>4, <1>6
  <2>2. j # 1 => j - 1 \in 1 .. k - 1 /\ (j - 1) + 1 = j
    BY <1>3, <2>1
  <2>3. j # 1 => t[j - 1] = b[(j - 1) + 1]
    BY <1>4, <2>2
  <2> QED BY <1>4, <2>1, <2>2, <2>3
<1>7. 1 \in DOMAIN b
  BY <1>3, <1>4
<1> QED BY <1>1, <1>2, <1>5, <1>6, <1>7 DEF TakenOff, t

(* A message that has been handled: what it leaves under way.              *)
LEMMA PopKeeps ==
  ASSUME Types, NEW s \in Sessions, session[s].bus # <<>>, Once(session[s]),
         NEW n \in Recording, n.bus = Tail(session[s].bus), n.writing = session[s].writing,
         NEW f, f = session[s].bus[1][2],
         \/ n.open \subseteq session[s].open
         \/ session[s].bus[1][1] = "opened" /\ n.open = session[s].open \cup {f}
  PROVE  Once(n) /\ Under(n) \subseteq Under(session[s]) /\ (f # 0 => f \in Under(session[s]))
<1> DEFINE x == session[s]
           b == x.bus
           t == Tail(b)
<1>1. TakenOff(t, b)
  BY TakenIs
<1>2. \A i \in DOMAIN b : b[i] \in Message
  BY Kinds
<1>3. n.bus = t /\ n.writing = x.writing /\ f = b[1][2]
      /\ (n.open \subseteq x.open \/ (b[1][1] = "opened" /\ n.open = x.open \cup {f}))
  OBVIOUS
<1>4. Once(x)
  OBVIOUS
<1> HIDE DEF t, b, x
<1>5. 1 \in DOMAIN b /\ (\A i \in DOMAIN t : \E j \in DOMAIN b : j # 1 /\ t[i] = b[j])
  BY <1>1 DEF TakenOff
<1>6. f # 0 => f \in Under(x)
  BY <1>3, <1>5 DEF Under, b
<1>7. Under(n) \subseteq Under(x)
  <2>1. \A i \in DOMAIN t : t[i][2] \in {b[j][2] : j \in DOMAIN b}
    BY <1>5
  <2>2. \A g \in n.open : g \in x.open \/ g = f
    BY <1>3
  <2>3. f \in {b[j][2] : j \in DOMAIN b}
    BY <1>3, <1>5
  <2>4. \A g \in Under(n) : g = x.writing \/ g \in x.open \/ \E j \in DOMAIN b : g = b[j][2]
    <3> SUFFICES ASSUME NEW g \in Under(n)
                 PROVE  g = x.writing \/ g \in x.open \/ \E j \in DOMAIN b : g = b[j][2]
      OBVIOUS
    <3>1. g = n.writing \/ g \in n.open \/ \E i \in DOMAIN n.bus : g = n.bus[i][2]
      BY DEF Under
    <3>2. CASE \E i \in DOMAIN n.bus : g = n.bus[i][2]
      BY <1>3, <2>1, <3>2
    <3> QED BY <1>3, <2>2, <2>3, <3>1, <3>2
  <2>5. \A g \in Under(n) : g # 0
    BY DEF Under
  <2> QED BY <2>4, <2>5 DEF Under, b
<1>8. Once(n)
  <2>1. ASSUME NEW i \in DOMAIN t, NEW j \in DOMAIN t, i # j, t[i] = t[j]
        PROVE  t[i][1] \notin {"opened", "closed"}
    <3>1. i + 1 \in DOMAIN b /\ j + 1 \in DOMAIN b /\ t[i] = b[i + 1] /\ t[j] = b[j + 1]
          /\ i \in Nat /\ j \in Nat
      BY <1>1 DEF TakenOff
    <3>2. i + 1 # j + 1
      BY <2>1, <3>1
    <3> QED BY <1>4, <2>1, <3>1, <3>2 DEF Once, b
  <2>2. ASSUME NEW i \in DOMAIN t
        PROVE  /\ t[i][1] \in {"opened", "closed"} => t[i][2] # 0
               /\ t[i][1] = "opened" => t[i][2] \notin n.open
               /\ t[i] = <<"closed", n.writing>> => n.writing = 0
               /\ t[i][1] = "eos" => t[i] = <<"eos", 0>>
    <3>1. PICK j \in DOMAIN b : j # 1 /\ t[i] = b[j]
      BY <1>5
    <3>2. /\ b[j][1] \in {"opened", "closed"} => b[j][2] # 0
          /\ b[j][1] = "opened" => b[j][2] \notin x.open
          /\ b[j] = <<"closed", x.writing>> => x.writing = 0
          /\ b[j][1] = "eos" => b[j] = <<"eos", 0>>
      BY <1>4 DEF Once, b
    <3>3. b[1][1] = "opened" /\ b[j][1] = "opened" => b[j][2] # f
      <4>1. b[1][1] = "opened" => b[j] # b[1]
        BY <1>4, <1>5, <3>1 DEF Once, b
      <4>2. b[1] \in Message /\ b[j] \in Message
        BY <1>2, <1>5
      <4> QED BY <1>3, <4>1, <4>2 DEF Message
    <3> QED BY <1>3, <3>1, <3>2, <3>3
  <2> QED BY <1>3, <2>1, <2>2 DEF Once
<1> QED BY <1>6, <1>7, <1>8 DEF x

(* ... and that every file is still closed after it is opened.             *)
LEMMA PopCloses ==
  ASSUME Types, NEW s \in Sessions, session[s].bus # <<>>, ClosedLater(session[s]),
         NEW n \in Recording, n.bus = Tail(session[s].bus), n.writing = session[s].writing,
         NEW f, f = session[s].bus[1][2],
         n.phase = session[s].phase \/ session[s].phase = "joining",
         \/ /\ session[s].bus[1][1] = "opened" /\ n.open = session[s].open \cup {f}
            /\ ~ n.drained
         \/ /\ session[s].bus[1][1] = "closed" /\ n.open = session[s].open \ {f}
            /\ ~ n.drained
         \/ /\ session[s].bus[1][1] \in {"eos", "error"} /\ n.open = session[s].open
            /\ n.drained
  PROVE  ClosedLater(n)
<1> DEFINE x == session[s]
           b == x.bus
           t == Tail(b)
<1>1. TakenOff(t, b)
  BY TakenIs
<1>2. \A i \in DOMAIN b : b[i] \in Message
  BY Kinds
<1>3. /\ n.bus = t /\ n.writing = x.writing /\ f = b[1][2]
      /\ n.phase = x.phase \/ x.phase = "joining"
      /\ \/ b[1][1] = "opened" /\ n.open = x.open \cup {f} /\ ~ n.drained
         \/ b[1][1] = "closed" /\ n.open = x.open \ {f} /\ ~ n.drained
         \/ b[1][1] \in {"eos", "error"} /\ n.open = x.open /\ n.drained
  OBVIOUS
<1>4. ClosedLater(x) /\ b # <<>>
  OBVIOUS
<1>5. Len(b) \in Nat /\ DOMAIN b = 1 .. Len(b) /\ DOMAIN t = 1 .. Len(t) /\ Len(t) = Len(b) - 1
      /\ t \in Seq(Message)
  BY Kinds, Taken, TakenIs
<1> HIDE DEF t, b, x
<1>7. ~ x.drained /\ x.phase \notin {"joining", "leaving"} /\ n.phase = x.phase
  BY <1>3, <1>4 DEF ClosedLater, b
<1>8. CASE b[1][1] \in {"eos", "error"}
  <2>1. b[1][1] = "eos" /\ 1 = Len(b) /\ x.writing = 0 /\ x.phase # "running"
    BY <1>1, <1>4, <1>8 DEF ClosedLater, b, TakenOff
  <2>2. DOMAIN b = {1} /\ Len(t) = 0
    <3>1. \A i \in 1 .. 1 : i = 1
      OBVIOUS
    <3>2. Len(b) = 1
      BY <2>1
    <3>3. DOMAIN b = 1 .. 1
      BY <1>5, <3>2
    <3>4. Len(t) = 0
      BY <1>5, <3>2
    <3> QED BY <3>1, <3>3, <3>4
  <2>3. t = <<>>
    BY <1>5, <2>2, EmptySeq
  <2>4. \A g \in x.open : g = x.writing \/ \E j \in DOMAIN b : b[j] = <<"closed", g>>
    BY <1>4 DEF ClosedLater, b
  <2>5. \A g \in n.open : g = n.writing
    BY <1>3, <1>8, <2>1, <2>2, <2>4
  <2>6. DOMAIN t = {}
    BY <1>5, <2>2
  <2> QED BY <1>3, <1>7, <2>1, <2>3, <2>5, <2>6 DEF ClosedLater
<1>9. CASE b[1][1] \in {"opened", "closed"}
  <2>1. ASSUME NEW g \in n.open
        PROVE  g = n.writing \/ \E j \in DOMAIN n.bus : n.bus[j] = <<"closed", g>>
    <3>1. g = x.writing \/ \E j \in DOMAIN b : j # 1 /\ b[j] = <<"closed", g>>
      <4>1. CASE g \in x.open
        <5>1. g = x.writing \/ \E j \in DOMAIN b : b[j] = <<"closed", g>>
          BY <1>4, <4>1 DEF ClosedLater, b
        <5>2. b[1] # <<"closed", g>>
          BY <1>3, <1>9, <2>1, <4>1
        <5> QED BY <1>1, <5>1, <5>2 DEF TakenOff
      <4>2. CASE g \notin x.open
        <5>1. b[1][1] = "opened" /\ g = b[1][2]
          BY <1>3, <1>9, <2>1, <4>2
        <5>2. \/ g = x.writing
              \/ \E j \in DOMAIN b : j > 1 /\ b[j] = <<"closed", g>>
          BY <1>1, <1>4, <5>1 DEF ClosedLater, b, TakenOff
        <5> QED BY <1>1, <5>2 DEF TakenOff
      <4> QED BY <4>1, <4>2
    <3>2. \A j \in DOMAIN b : j # 1 => j - 1 \in DOMAIN t /\ t[j - 1] = b[j]
      BY <1>1 DEF TakenOff
    <3> QED BY <1>3, <3>1, <3>2
  <2>2. ASSUME NEW i \in DOMAIN n.bus, n.bus[i][1] = "opened"
        PROVE  \/ n.bus[i][2] = n.writing
               \/ \E j \in DOMAIN n.bus : j > i /\ n.bus[j] = <<"closed", n.bus[i][2]>>
    <3>1. i \in Nat /\ i + 1 \in DOMAIN b /\ n.bus[i] = b[i + 1]
      BY <1>1, <1>3, <2>2 DEF TakenOff
    <3>2. \/ b[i + 1][2] = x.writing
          \/ \E j \in DOMAIN b : j > i + 1 /\ b[j] = <<"closed", b[i + 1][2]>>
      BY <1>4, <2>2, <3>1 DEF ClosedLater, b
    <3>3. ASSUME NEW j \in DOMAIN b, j > i + 1, b[j] = <<"closed", b[i + 1][2]>>
          PROVE  \E k \in DOMAIN t : k > i /\ t[k] = <<"closed", b[i + 1][2]>>
      <4>1. j \in Nat /\ j # 1
        BY <1>1, <3>1, <3>3 DEF TakenOff
      <4>2. j - 1 \in DOMAIN t /\ t[j - 1] = b[j]
        BY <1>1, <4>1 DEF TakenOff
      <4>3. j - 1 > i
        BY <3>1, <3>3, <4>1
      <4> QED BY <3>3, <4>2, <4>3
    <3> QED BY <1>3, <3>1, <3>2, <3>3
  <2>3. ASSUME NEW i \in DOMAIN n.bus
        PROVE  /\ n.bus[i][1] # "error"
               /\ n.bus[i][1] = "eos" => /\ i = Len(n.bus) /\ n.writing = 0
                                         /\ ~ n.drained /\ n.phase # "running"
    <3>1. i \in Nat /\ i + 1 \in DOMAIN b /\ n.bus[i] = b[i + 1]
      BY <1>1, <1>3, <2>3 DEF TakenOff
    <3>2. /\ b[i + 1][1] # "error"
          /\ b[i + 1][1] = "eos" => i + 1 = Len(b) /\ x.writing = 0 /\ x.phase # "running"
      BY <1>4, <3>1 DEF ClosedLater, b
    <3>3. i + 1 = Len(b) => i = Len(t)
      BY <1>5, <3>1
    <3> QED BY <1>3, <1>7, <1>9, <3>1, <3>2, <3>3
  <2>4. ~ n.drained /\ n.phase \notin {"joining", "leaving"}
    BY <1>3, <1>7, <1>9
  <2> QED BY <2>1, <2>2, <2>3, <2>4 DEF ClosedLater
<1> QED BY <1>3, <1>8, <1>9

LEMMA PoppedIs ==
  ASSUME Types, NEW s \in Sessions, session[s].bus # <<>>
  PROVE  LET n == Popped(s)
         IN  /\ n \in Recording /\ n.bus = Tail(session[s].bus)
             /\ n.writing = session[s].writing /\ n.open = session[s].open
             /\ n.storing = session[s].storing /\ n.drained = session[s].drained
             /\ n.phase = IF session[s].phase = "joining" THEN "leaving" ELSE session[s].phase
<1> DEFINE x == session[s]
           t == Tail(x.bus)
           q == IF x.phase = "joining" THEN "leaving" ELSE x.phase
           y == [x EXCEPT !.bus = t]
           n == [y EXCEPT !.phase = q]
<1>1. x \in Recording /\ t \in Seq(Message)
  BY Kinds, TakenIs
<1>2. q \in {"unused", "running", "draining", "joining", "leaving", "gone"}
  BY <1>1 DEF Recording
<1>3. Popped(s) = n
  BY <1>1 DEF Popped, Recording
<1> HIDE DEF x, t, q
<1>4. /\ y \in Recording /\ y.bus = t /\ y.writing = x.writing /\ y.open = x.open
      /\ y.storing = x.storing /\ y.drained = x.drained
  BY <1>1 DEF Recording
<1> HIDE DEF y
<1>5. /\ n \in Recording /\ n.bus = t /\ n.writing = x.writing /\ n.open = x.open
      /\ n.storing = x.storing /\ n.drained = x.drained /\ n.phase = q
  BY <1>2, <1>4 DEF Recording
<1> QED BY <1>3, <1>5 DEF x, t, q

(* A row written, or not: then the session counts as given up.             *)
LEMMA UpsertIs ==
  ASSUME Types, NEW f \in Files, NEW status \in {"recording", "complete"}, NEW s \in Sessions,
         Upsert(f, status, s)
  PROVE  /\ rows' \in [Files -> {"none", "recording", "complete"}]
         /\ \A g \in Files : g # f => rows'[g] = rows[g]
         /\ abandoned \subseteq abandoned' /\ abandoned' \subseteq abandoned \cup {s}
         /\ \/ rows'[f] = status /\ abandoned' = abandoned
            \/ rows'[f] = rows[f] /\ s \in abandoned'
BY DEF Upsert, Types

LEMMA FragmentOpenedStep == ASSUME IInv, NEW s \in Sessions, FragmentOpened(s) PROVE IInv'
<1> DEFINE x == session[s]
           f == x.bus[1][2]
           y == Popped(s)
           n == [y EXCEPT !.open = @ \cup {f}]
<1>1. Types /\ Owners /\ OnTheWay /\ Closes
  BY DEF IInv
<1>2. x.bus # <<>> /\ x.storing = 0 /\ x.phase \in {"running", "draining", "joining"}
  BY DEF FragmentOpened, CanPop
<1>3. Head(x.bus) = x.bus[1] /\ x.bus[1] \in Message
  BY <1>1, <1>2, TakenIs
<1>4. x.bus[1][1] = "opened"
  BY <1>3 DEF FragmentOpened, CanPop
<1>5. Once(x)
  BY <1>1 DEF OnTheWay
<1>6. 1 \in DOMAIN x.bus
  BY <1>1, <1>2, TakenIs DEF TakenOff
<1>7. f \in Files /\ f # 0
  BY <1>3, <1>4, <1>5, <1>6 DEF Once, Message
<1>8. /\ y \in Recording /\ y.bus = Tail(x.bus) /\ y.writing = x.writing /\ y.open = x.open
      /\ y.storing = x.storing /\ y.drained = x.drained
      /\ y.phase = IF x.phase = "joining" THEN "leaving" ELSE x.phase
  BY <1>1, <1>2, PoppedIs
<1>9. session' = [session EXCEPT ![s] = n] /\ Upsert(f, "recording", s)
  BY <1>3 DEF FragmentOpened
<1> HIDE DEF y, f
<1>10. /\ n \in Recording /\ n.bus = Tail(x.bus) /\ n.writing = x.writing
       /\ n.open = x.open \cup {f} /\ n.storing = 0 /\ n.drained = x.drained
       /\ n.phase = IF x.phase = "joining" THEN "leaving" ELSE x.phase
  BY <1>2, <1>7, <1>8 DEF Recording
<1> HIDE DEF n
<1>11. Once(n) /\ Under(n) \subseteq Under(x) /\ f \in Under(x)
  BY <1>1, <1>2, <1>4, <1>5, <1>7, <1>10, PopKeeps DEF f
<1>12. /\ rows' \in [Files -> {"none", "recording", "complete"}]
       /\ \A g \in Files : g # f => rows'[g] = rows[g]
       /\ abandoned \subseteq abandoned' /\ abandoned' \subseteq abandoned \cup {s}
       /\ \/ rows'[f] = "recording" /\ abandoned' = abandoned
          \/ rows'[f] = rows[f] /\ s \in abandoned'
  BY <1>1, <1>7, <1>9, UpsertIs
<1>13. rows'[f] # "complete"
  BY <1>1, <1>11, <1>12 DEF OnTheWay
<1>14. ASSUME s \notin abandoned'  PROVE ClosedLater(n)
  <2>1. ClosedLater(x)
    BY <1>1, <1>12, <1>14 DEF Closes
  <2>2. ~ n.drained
    BY <1>2, <1>10, <2>1 DEF ClosedLater
  <2>3. n.phase = x.phase \/ x.phase = "joining"
    BY <1>10
  <2> QED BY <1>1, <1>2, <1>4, <1>10, <2>1, <2>2, <2>3, PopCloses DEF f
<1>15. UNCHANGED <<entry, applying, mutex, thread, worker, running, madeBy, disk, asked,
                   kept, dropped, removed>>
  BY DEF FragmentOpened, watcherUnchanged, historyVars
<1>16. Alive(s) /\ (n.phase = x.phase \/ (x.phase = "joining" /\ n.phase = "leaving"))
  BY <1>2, <1>10 DEF Alive
<1>17. \A g \in Files : g # f /\ g \in x.open => g \in n.open
  BY <1>10
<1> QED BY <1>2, <1>7, <1>9, <1>10, <1>11, <1>12, <1>13, <1>14, <1>15, <1>16, <1>17,
           WatcherKeeps

LEMMA FragmentClosedStep == ASSUME IInv, NEW s \in Sessions, FragmentClosed(s) PROVE IInv'
<1> DEFINE x == session[s]
           f == x.bus[1][2]
           y == Popped(s)
<1>1. Types /\ Owners /\ OnTheWay /\ Closes
  BY DEF IInv
<1>2. x.bus # <<>> /\ x.storing = 0 /\ x.phase \in {"running", "draining", "joining"}
  BY DEF FragmentClosed, CanPop
<1>3. Head(x.bus) = x.bus[1] /\ x.bus[1] \in Message
  BY <1>1, <1>2, TakenIs
<1>4. x.bus[1][1] = "closed"
  BY <1>3 DEF FragmentClosed, CanPop
<1>5. Once(x)
  BY <1>1 DEF OnTheWay
<1>6. 1 \in DOMAIN x.bus /\ TakenOff(Tail(x.bus), x.bus)
  BY <1>1, <1>2, TakenIs DEF TakenOff
<1>7. f \in Files /\ f # 0 /\ x.bus[1] = <<"closed", f>>
  BY <1>3, <1>4, <1>5, <1>6 DEF Once, Message
<1>8. /\ y \in Recording /\ y.bus = Tail(x.bus) /\ y.writing = x.writing /\ y.open = x.open
      /\ y.storing = x.storing /\ y.drained = x.drained
      /\ y.phase = IF x.phase = "joining" THEN "leaving" ELSE x.phase
  BY <1>1, <1>2, PoppedIs
<1>9. UNCHANGED <<entry, applying, mutex, thread, worker, running, madeBy, disk, asked,
                  kept, dropped, removed>>
  BY DEF FragmentClosed, watcherUnchanged, historyVars
<1>10. Alive(s)
  BY <1>2 DEF Alive
<1>11. s \notin abandoned => ClosedLater(x) /\ ~ x.drained
  BY <1>1, <1>2 DEF Closes, ClosedLater
<1>12. CASE f \notin x.open
  <2>1. session' = [session EXCEPT ![s] = y] /\ rows' = rows /\ abandoned' = abandoned
    BY <1>3, <1>12 DEF FragmentClosed
  <2> HIDE DEF y
  <2>2. Once(y) /\ Under(y) \subseteq Under(x) /\ f \in Under(x)
    BY <1>1, <1>2, <1>5, <1>7, <1>8, PopKeeps
  <2>3. ASSUME s \notin abandoned'  PROVE ClosedLater(y)
    <3>1. ClosedLater(x) /\ ~ y.drained
      BY <1>8, <1>11, <2>1, <2>3
    <3>2. y.open = x.open \ {f} /\ (y.phase = x.phase \/ x.phase = "joining")
      BY <1>8, <1>12
    <3> QED BY <1>1, <1>2, <1>4, <1>8, <3>1, <3>2, PopCloses
  <2>4. rows[f] # "complete" /\ madeBy[f] = s
    BY <1>1, <2>2 DEF OnTheWay
  <2>5. rows'[f] = "recording" => s \in abandoned' \/ f \in y.open
    BY <1>1, <1>7, <1>8, <2>1, <2>4 DEF Closes
  <2>6. /\ rows' \in [Files -> {"none", "recording", "complete"}]
        /\ \A g \in Files : g # f => rows'[g] = rows[g]
        /\ abandoned \subseteq abandoned' /\ abandoned' \subseteq abandoned \cup {s}
        /\ y.phase = x.phase \/ (x.phase = "joining" /\ y.phase = "leaving")
        /\ \A g \in Files : g # f /\ g \in x.open => g \in y.open
        /\ y.storing = 0
    BY <1>1, <1>2, <1>8, <2>1 DEF Types
  <2> HIDE DEF f
  <2> QED BY <1>2, <1>7, <1>8, <1>9, <1>10, <2>1, <2>2, <2>3, <2>4, <2>5, <2>6, WatcherKeeps
<1>13. CASE f \in x.open
  <2> DEFINE g == IF rows'[f] = "complete" THEN f ELSE 0
             o == x.open \ {f}
             n == [[y EXCEPT !.open = o] EXCEPT !.storing = g]
  <2>1. session' = [session EXCEPT ![s] = n] /\ Upsert(f, "complete", s)
    <3>1. /\ session' = [session EXCEPT ![s] =
                [y EXCEPT !.open = @ \ {f}, !.storing = IF rows'[f] = "complete" THEN f ELSE 0]]
          /\ Upsert(f, "complete", s)
      BY <1>3, <1>13 DEF FragmentClosed
    <3>2. [y EXCEPT !.open = @ \ {f}, !.storing = IF rows'[f] = "complete" THEN f ELSE 0] = n
      <4> HIDE DEF y, f
      <4> QED BY <1>8 DEF Recording
    <3> QED BY <3>1, <3>2
  <2> HIDE DEF y, f, g, o
  <2>2. o \subseteq Files /\ g \in Files \cup {0} /\ o \subseteq x.open /\ f \notin o
    BY <1>7, <1>8 DEF Recording, o, g
  <2>3. /\ n \in Recording /\ n.bus = Tail(x.bus) /\ n.writing = x.writing
        /\ n.open = o /\ n.storing = g /\ n.drained = x.drained
        /\ n.phase = IF x.phase = "joining" THEN "leaving" ELSE x.phase
    BY <1>8, <2>2 DEF Recording
  <2> HIDE DEF n
  <2>4. Once(n) /\ Under(n) \subseteq Under(x) /\ f \in Under(x)
    BY <1>1, <1>2, <1>5, <1>7, <2>2, <2>3, PopKeeps DEF f
  <2>5. /\ rows' \in [Files -> {"none", "recording", "complete"}]
        /\ \A h \in Files : h # f => rows'[h] = rows[h]
        /\ abandoned \subseteq abandoned' /\ abandoned' \subseteq abandoned \cup {s}
        /\ \/ rows'[f] = "complete" /\ abandoned' = abandoned
           \/ rows'[f] = rows[f] /\ s \in abandoned'
    BY <1>1, <1>7, <2>1, UpsertIs
  <2>6. f \notin Under(n)
    <3>1. x.writing # f
      BY <1>5, <1>6, <1>7 DEF Once
    <3>2. ASSUME NEW i \in DOMAIN Tail(x.bus)  PROVE Tail(x.bus)[i][2] # f
      <4>1. PICK j \in DOMAIN x.bus : j # 1 /\ Tail(x.bus)[i] = x.bus[j]
        BY <1>6, <3>2 DEF TakenOff
      <4>2. x.bus[j] \in Message
        BY <1>1, <4>1, Kinds
      <4>3. x.bus[j] # x.bus[1]
        BY <1>4, <1>5, <1>6, <4>1 DEF Once
      <4>4. x.bus[j][1] = "opened" => x.bus[j][2] # f
        BY <1>5, <1>13, <4>1 DEF Once
      <4>5. x.bus[j][1] = "closed" => x.bus[j][2] # f
        BY <1>7, <4>2, <4>3 DEF Message
      <4>6. x.bus[j][1] \in {"eos", "error"} => x.bus[j][2] # f
        BY <1>7, <4>2 DEF Message
      <4> QED BY <4>1, <4>2, <4>4, <4>5, <4>6 DEF Message
    <3> QED BY <2>2, <2>3, <3>1, <3>2 DEF Under
  <2>7. ASSUME s \notin abandoned'  PROVE ClosedLater(n)
    <3>1. ClosedLater(x) /\ ~ n.drained
      BY <1>11, <2>3, <2>5, <2>7
    <3>2. n.open = x.open \ {f} /\ (n.phase = x.phase \/ x.phase = "joining")
      BY <2>3 DEF o
    <3> QED BY <1>1, <1>2, <1>4, <2>3, <3>1, <3>2, PopCloses DEF f
  <2>8. rows[f] # "complete"
    BY <1>1, <2>4 DEF OnTheWay
  <2>9. /\ n.storing # 0 => n.storing = f /\ f \notin Under(n) /\ rows'[f] = "complete"
        /\ rows'[f] = "complete" => n.storing = f
        /\ rows'[f] = "recording" => s \in abandoned'
    BY <1>7, <2>3, <2>5, <2>6, <2>8 DEF g
  <2>10. /\ n.phase = x.phase \/ (x.phase = "joining" /\ n.phase = "leaving")
         /\ \A h \in Files : h # f /\ h \in x.open => h \in n.open
    BY <2>3 DEF o
  <2> QED BY <1>2, <1>7, <1>9, <1>10, <2>1, <2>3, <2>4, <2>5, <2>7, <2>9, <2>10,
             WatcherKeeps
<1> QED BY <1>12, <1>13

LEMMA PipelineDoneStep == ASSUME IInv, NEW s \in Sessions, PipelineDone(s) PROVE IInv'
<1> DEFINE x == session[s]
           f == x.bus[1][2]
           y == Popped(s)
           n == [y EXCEPT !.drained = TRUE]
<1>1. Types /\ Owners /\ OnTheWay /\ Closes
  BY DEF IInv
<1>2. x.bus # <<>> /\ x.storing = 0 /\ x.phase \in {"running", "draining", "joining"}
  BY DEF PipelineDone, CanPop
<1>3. Head(x.bus) = x.bus[1] /\ x.bus[1] \in Message
  BY <1>1, <1>2, TakenIs
<1>4. x.bus[1][1] \in {"eos", "error"}
  BY <1>3 DEF PipelineDone, CanPop
<1>5. Once(x)
  BY <1>1 DEF OnTheWay
<1>6. /\ y \in Recording /\ y.bus = Tail(x.bus) /\ y.writing = x.writing /\ y.open = x.open
      /\ y.storing = x.storing
      /\ y.phase = IF x.phase = "joining" THEN "leaving" ELSE x.phase
  BY <1>1, <1>2, PoppedIs
<1>7. session' = [session EXCEPT ![s] = n]
  BY DEF PipelineDone
<1> HIDE DEF y
<1>8. /\ n \in Recording /\ n.bus = Tail(x.bus) /\ n.writing = x.writing /\ n.open = x.open
      /\ n.storing = 0 /\ n.drained
      /\ n.phase = IF x.phase = "joining" THEN "leaving" ELSE x.phase
  BY <1>2, <1>6 DEF Recording
<1> HIDE DEF n
<1>9. Once(n) /\ Under(n) \subseteq Under(x)
  BY <1>1, <1>2, <1>5, <1>8, PopKeeps
<1>10. ASSUME s \notin abandoned'  PROVE ClosedLater(n)
  <2>1. ClosedLater(x)
    BY <1>1, <1>10 DEF Closes, PipelineDone
  <2>2. n.phase = x.phase \/ x.phase = "joining"
    BY <1>8
  <2> QED BY <1>1, <1>2, <1>4, <1>8, <2>1, <2>2, PopCloses
<1>11. UNCHANGED <<entry, applying, mutex, thread, worker, running, madeBy, disk, asked,
                   kept, dropped, removed>>
       /\ rows' = rows /\ abandoned' = abandoned
  BY DEF PipelineDone, watcherUnchanged, historyVars
<1>12. Alive(s) /\ (n.phase = x.phase \/ (x.phase = "joining" /\ n.phase = "leaving"))
  BY <1>2, <1>8 DEF Alive
<1>13. /\ rows' \in [Files -> {"none", "recording", "complete"}]
       /\ \A g \in Files : g # 0 => rows'[g] = rows[g]
       /\ \A g \in Files : g # 0 /\ g \in x.open => g \in n.open
       /\ abandoned \subseteq abandoned' /\ abandoned' \subseteq abandoned \cup {s}
       /\ 0 \in Files \cup {0}
  BY <1>1, <1>8, <1>11 DEF Types
<1> QED BY <1>2, <1>7, <1>8, <1>9, <1>10, <1>11, <1>12, <1>13, WatcherKeeps

(* The entry, when all that changes of it is the gate.                     *)
LEMMA GateMoves ==
  ASSUME Types, NEW G \in Gate, entry' = {[e EXCEPT !.gate = G] : e \in entry}
  PROVE  /\ entry' \subseteq Entry /\ \A d, e \in entry' : d = e
         /\ \A e \in entry' : \E d \in entry : d.session = e.session
         /\ \A d \in entry : \E e \in entry' : d.session = e.session
         /\ \A e \in entry' : e.gate = G
         /\ entry = {} <=> entry' = {}
         /\ Pending' = IF Present THEN G.held ELSE {}
<1>1. \A e \in Entry : /\ [e EXCEPT !.gate = G] \in Entry
                       /\ [e EXCEPT !.gate = G].gate = G
                       /\ [e EXCEPT !.gate = G].session = e.session
  BY DEF Entry
<1>2. entry \subseteq Entry /\ \A d, e \in entry : d = e
  BY DEF Types
<1>3. entry' \subseteq Entry
  <2> SUFFICES ASSUME NEW e \in entry'  PROVE e \in Entry
    OBVIOUS
  <2>1. PICK d \in entry : e = [d EXCEPT !.gate = G]
    OBVIOUS
  <2> QED BY <1>1, <1>2, <2>1
<1>4. \A d, e \in entry' : d = e
  BY <1>2
<1>5. ASSUME NEW e \in entry'  PROVE \E d \in entry : d.session = e.session
  <2>1. PICK d \in entry : e = [d EXCEPT !.gate = G]
    OBVIOUS
  <2> QED BY <1>1, <1>2, <2>1
<1>6. \A d \in entry : \E e \in entry' : d.session = e.session
  <2> SUFFICES ASSUME NEW d \in entry  PROVE \E e \in entry' : d.session = e.session
    OBVIOUS
  <2>1. [d EXCEPT !.gate = G] \in entry' /\ [d EXCEPT !.gate = G].session = d.session
    BY <1>1, <1>2
  <2> QED BY <2>1
<1>7. ASSUME NEW e \in entry'  PROVE e.gate = G
  <2>1. PICK d \in entry : e = [d EXCEPT !.gate = G]
    OBVIOUS
  <2> QED BY <1>1, <1>2, <2>1
<1>8. entry = {} <=> entry' = {}
  OBVIOUS
<1>9. Pending' = IF Present THEN G.held ELSE {}
  <2>1. Pending' = UNION {e.gate.held : e \in entry'}
    BY DEF Pending
  <2>2. CASE entry = {}
    BY <1>8, <2>1, <2>2 DEF Present
  <2>3. CASE entry # {}
    <3>1. PICK e \in entry' : TRUE
      BY <1>8, <2>3
    <3>2. entry' = {e}
      BY <1>4, <3>1
    <3> QED BY <1>7, <2>1, <2>3, <3>2 DEF Present
  <2> QED BY <2>2, <2>3
<1> QED BY <1>3, <1>4, <1>5, <1>6, <1>7, <1>8, <1>9

LEMMA GateFields ==
  ASSUME NEW g \in Gate, NEW h \in SUBSET Files, NEW b \in BOOLEAN
  PROVE  /\ g.held \in SUBSET Files /\ g.saves \in SUBSET Files
         /\ [g EXCEPT !.held = h] \in Gate /\ [g EXCEPT !.held = h].held = h
         /\ [g EXCEPT !.held = h].saves = g.saves
         /\ [g EXCEPT !.saves = h] \in Gate /\ [g EXCEPT !.saves = h].saves = h
         /\ [g EXCEPT !.saves = h].held = g.held
         /\ [g EXCEPT !.hot = b] \in Gate /\ [g EXCEPT !.hot = b].held = g.held
         /\ [g EXCEPT !.hot = b].saves = g.saves
BY DEF Gate

LEMMA AfterSettleIs ==
  ASSUME NEW g \in Gate, NEW due \in SUBSET g.held, NEW forget \in BOOLEAN
  PROVE  /\ AfterSettle(g, due, forget) \in Gate
         /\ AfterSettle(g, due, forget).held = g.held \ due
         /\ AfterSettle(g, due, forget).saves = IF forget THEN {} ELSE g.saves
<1>1. g \in [held : SUBSET Files, saves : SUBSET Files, hot : BOOLEAN, present : BOOLEAN]
  BY DEF Gate
<1> DEFINE left == [g EXCEPT !.held = g.held \ due]
<1>2. left \in Gate /\ left.held = g.held \ due /\ left.saves = g.saves
  BY <1>1 DEF Gate
<1> HIDE DEF left
<1>3. /\ [left EXCEPT !.hot = FALSE, !.saves = {}] \in Gate
      /\ [left EXCEPT !.hot = FALSE, !.saves = {}].held = left.held
      /\ [left EXCEPT !.hot = FALSE, !.saves = {}].saves = {}
  BY <1>2 DEF Gate
<1>4. AfterSettle(g, due, forget)
        = IF forget THEN [left EXCEPT !.hot = FALSE, !.saves = {}] ELSE left
  BY DEF AfterSettle, StillHeld, left
<1>5. CASE forget
  BY <1>2, <1>3, <1>4, <1>5
<1>6. CASE ~ forget
  BY <1>2, <1>4, <1>6
<1> QED BY <1>5, <1>6

(* Being told to drain changes nothing about what is still to be closed;   *)
(* nor does the end of the wait, when it waited for the drain.             *)
LEMMA ClosesAlike ==
  ASSUME NEW x, NEW n, n.bus = x.bus, n.writing = x.writing, n.open = x.open,
         n.drained = x.drained, ClosedLater(x),
         \/ n.phase = x.phase
         \/ n.phase = "draining"
         \/ n.phase = "joining" /\ x.drained
  PROVE  ClosedLater(n)
<1>1. ASSUME NEW f \in n.open
      PROVE  f = n.writing \/ \E j \in DOMAIN n.bus : n.bus[j] = <<"closed", f>>
  <2>1. f \in x.open
    OBVIOUS
  <2>2. f = x.writing \/ \E j \in DOMAIN x.bus : x.bus[j] = <<"closed", f>>
    BY <2>1 DEF ClosedLater
  <2> QED BY <2>2
<1>2. ASSUME NEW i \in DOMAIN n.bus, n.bus[i][1] = "opened"
      PROVE  \/ n.bus[i][2] = n.writing
             \/ \E j \in DOMAIN n.bus : j > i /\ n.bus[j] = <<"closed", n.bus[i][2]>>
  <2>1. i \in DOMAIN x.bus /\ x.bus[i][1] = "opened"
    BY <1>2
  <2>2. \/ x.bus[i][2] = x.writing
        \/ \E j \in DOMAIN x.bus : j > i /\ x.bus[j] = <<"closed", x.bus[i][2]>>
    BY <2>1 DEF ClosedLater
  <2> QED BY <2>2
<1>3. \A i \in DOMAIN n.bus :
        /\ n.bus[i][1] # "error"
        /\ n.bus[i][1] = "eos" => /\ i = Len(n.bus) /\ n.writing = 0
                                  /\ ~ n.drained /\ n.phase # "running"
  BY DEF ClosedLater
<1>4. n.drained => n.bus = <<>> /\ n.writing = 0 /\ n.phase # "running"
  BY DEF ClosedLater
<1>5. n.phase \in {"joining", "leaving"} => n.drained
  BY DEF ClosedLater
<1> QED BY <1>1, <1>2, <1>3, <1>4, <1>5 DEF ClosedLater

LEMMA OfferStep == ASSUME IInv, NEW s \in Sessions, Offer(s) PROVE IInv'
<1> DEFINE x == session[s]
           f == x.storing
           n == [x EXCEPT !.storing = 0]
           gate == EntryOrNew.gate
           G == IF EntryOrNew.builtMode = "motion" /\ gate.present
                THEN [gate EXCEPT !.held = @ \cup {f}] ELSE gate
<1>1. Types /\ Turns /\ Owners /\ OnTheWay /\ Arrived /\ Promised /\ Closes
  BY DEF IInv
<1>2. x \in Recording /\ f \in Files /\ f # 0
  BY <1>1, Kinds DEF Offer, Recording
<1>3. /\ session' = [session EXCEPT ![s] = n]
      /\ UNCHANGED <<applying, mutex, thread, worker, running, madeBy, rows, disk, abandoned,
                     asked, kept, dropped, removed>>
  BY <1>1 DEF Offer, Types, historyVars
<1>4. /\ n \in Recording /\ n.storing = 0 /\ n.bus = x.bus /\ n.writing = x.writing
      /\ n.open = x.open /\ n.phase = x.phase /\ n.drained = x.drained
  BY <1>2 DEF Recording
<1>5. /\ session' \in [Sessions -> Recording] /\ session'[s] = n
      /\ \A r \in Sessions : r # s => session'[r] = session[r]
  BY <1>1, <1>3, <1>4, Changed
<1>6. gate \in Gate /\ EntryOrNew \in Entry /\ Pending = gate.held
      /\ \A e \in entry : e = EntryOrNew
  BY <1>1, OneEntry DEF Entry
<1>7. gate.held \in SUBSET Files
  BY <1>6, GateFields
<1>8. /\ G \in Gate /\ G.saves = gate.saves /\ gate.held \subseteq G.held
      /\ G.held \subseteq gate.held \cup {f}
  <2> HIDE DEF gate
  <2> DEFINE h == gate.held \cup {f}
             H == [gate EXCEPT !.held = h]
  <2>1. h \in SUBSET Files
    BY <1>2, <1>7
  <2>2. G = gate \/ G = H
    OBVIOUS
  <2> HIDE DEF h, G
  <2>3. H \in Gate /\ H.held = h /\ H.saves = gate.saves
    BY <1>6, <2>1, GateFields
  <2> QED BY <1>6, <2>2, <2>3 DEF h
<1>9. entry' = {[e EXCEPT !.gate = G] : e \in entry}
  <2>1. \A e \in Entry :
          (IF e.builtMode = "motion" /\ e.gate.present
           THEN [e EXCEPT !.gate.held = @ \cup {f}] ELSE e)
          = [e EXCEPT !.gate = IF e.builtMode = "motion" /\ e.gate.present
                               THEN [e.gate EXCEPT !.held = @ \cup {f}] ELSE e.gate]
    BY DEF Entry
  <2>2. entry' = {IF e.builtMode = "motion" /\ e.gate.present
                  THEN [e EXCEPT !.gate.held = @ \cup {f}] ELSE e : e \in entry}
    BY DEF Offer, Offered
  <2>3. \A e \in entry : e \in Entry /\ e = EntryOrNew
    BY <1>1, <1>6 DEF Types
  <2>4. \A e \in entry :
          (IF e.builtMode = "motion" /\ e.gate.present
           THEN [e EXCEPT !.gate.held = @ \cup {f}] ELSE e) = [e EXCEPT !.gate = G]
    BY <2>1, <2>3
  <2> HIDE DEF G, f
  <2>5. CASE entry = {}
    BY <2>2, <2>5
  <2>6. CASE entry # {}
    <3>1. entry = {EntryOrNew}
      BY <1>6, <2>6
    <3> QED BY <2>2, <2>4, <3>1
  <2> QED BY <2>5, <2>6
<1> HIDE DEF n, G, gate, x, f
<1>10. /\ entry' \subseteq Entry /\ \A d, e \in entry' : d = e
       /\ \A e \in entry' : \E d \in entry : d.session = e.session
       /\ \A d \in entry : \E e \in entry' : d.session = e.session
       /\ \A e \in entry' : e.gate = G
       /\ entry = {} <=> entry' = {}
       /\ Pending' = IF Present THEN G.held ELSE {}
  BY <1>1, <1>8, <1>9, GateMoves
<1>11. /\ Flushed' = Flushed /\ Intact' = Intact /\ BeforeShutdown' = BeforeShutdown
       /\ \A t \in Threads : Halting(t)' = Halting(t)
       /\ Pending' \subseteq Pending \cup {f} /\ Settled' \subseteq Settled \cup {f}
  BY <1>3, <1>6, <1>8, <1>10 DEF Flushed, Intact, BeforeShutdown, Halting, Settled
<1>12. /\ madeBy[f] = s /\ f \in disk /\ rows[f] = "complete" /\ f \notin Settled
  BY <1>1, <1>2 DEF OnTheWay, x, f
<1>13. Under(n) = Under(x) /\ (Once(x) => Once(n)) /\ (ClosedLater(x) => ClosedLater(n))
  <2>1. Under(n) = Under(x)
    BY <1>4 DEF Under
  <2>2. Once(x) => Once(n)
    BY <1>4 DEF Once
  <2>3. ClosedLater(x) => ClosedLater(n)
    BY <1>4, ClosesAlike
  <2> QED BY <2>1, <2>2, <2>3
<1>14. Types'
  BY <1>1, <1>3, <1>5, <1>10 DEF Types
<1>15. Turns'
  <2>1. applying # Nobody => \A e \in entry' : e.session = 0
    BY <1>1, <1>10 DEF Turns
  <2> QED BY <1>1, <1>3, <1>11, <2>1 DEF Turns
<1>16. Owners'
  <2>1. Alive(s)
    BY <1>1, <1>2 DEF Owners, x, f
  <2> QED BY <1>1, <1>3, <1>4, <1>10, <2>1, OwnersStay DEF x
<1>17. \A r \in Sessions : Under(session'[r]) = Under(session[r])
  BY <1>5, <1>13 DEF x
<1>18. OnTheWay'
  <2>1. \A r \in Sessions : Once(session'[r])
    BY <1>1, <1>5, <1>13 DEF OnTheWay, x
  <2>2. ASSUME NEW r \in Sessions, NEW g \in Under(session'[r])
        PROVE  /\ madeBy'[g] = r /\ g \in disk' /\ rows'[g] # "complete" /\ g \notin Settled'
    <3>1. madeBy[g] = r /\ g \in disk /\ rows[g] # "complete" /\ g \notin Settled
      BY <1>1, <1>17 DEF OnTheWay
    <3> QED BY <1>3, <1>11, <1>12, <3>1
  <2>3. ASSUME NEW r \in Sessions, session'[r].storing # 0
        PROVE  LET g == session'[r].storing
               IN  madeBy'[g] = r /\ g \in disk' /\ rows'[g] = "complete" /\ g \notin Settled'
    <3>1. r # s
      BY <1>4, <1>5, <2>3
    <3> DEFINE g == session[r].storing
    <3>2. session'[r].storing = g
      BY <1>5, <3>1
    <3>3. madeBy[g] = r /\ g \in disk /\ rows[g] = "complete" /\ g \notin Settled
      BY <1>1, <2>3, <3>2 DEF OnTheWay
    <3>4. g # f
      BY <1>12, <3>1, <3>3
    <3> QED BY <1>3, <1>11, <3>2, <3>3, <3>4
  <2> QED BY <2>1, <2>2, <2>3 DEF OnTheWay
<1>19. Arrived'
  <2>1. \A g \in Pending' : rows'[g] = "complete" /\ g \in disk'
    BY <1>1, <1>3, <1>11, <1>12 DEF Arrived
  <2>2. Pending' \cap (Flushed' \cup kept' \cup dropped' \cup worker'.batch) = {}
    BY <1>1, <1>3, <1>11, <1>12 DEF Arrived, Settled
  <2>3. \A g \in Files : madeBy'[g] = 0 => g \notin Settled' \cup asked' /\ rows'[g] = "none"
    BY <1>1, <1>3, <1>11, <1>12 DEF Arrived, Sessions
  <2> QED BY <2>1, <2>2, <2>3 DEF Arrived
<1>20. Promised'
  <2>1. ASSUME Intact', NEW e \in entry', NEW g \in asked'
        PROVE  \/ g \in e.gate.saves
               \/ g \notin e.gate.held /\ \A r \in Sessions :
                                 g \notin Under(session'[r]) \cup {session'[r].storing}
    <3>1. Intact /\ g \in asked /\ e.gate = G /\ EntryOrNew \in entry /\ g \in Files
      BY <1>1, <1>3, <1>6, <1>10, <1>11, <2>1, OneEntry DEF Types
    <3>2. \/ g \in gate.saves
          \/ g \notin gate.held /\ \A r \in Sessions :
                                 g \notin Under(session[r]) \cup {session[r].storing}
      BY <1>1, <3>1 DEF Promised, gate
    <3>3. CASE g \in gate.saves
      BY <1>8, <3>1, <3>3
    <3>4. CASE g \notin gate.held /\ \A r \in Sessions :
                                 g \notin Under(session[r]) \cup {session[r].storing}
      <4>1. g # f
        BY <3>4 DEF f, x
      <4>2. g \notin e.gate.held
        BY <1>8, <3>1, <3>4, <4>1
      <4>3. \A r \in Sessions : g # session'[r].storing
        BY <1>4, <1>5, <3>1, <3>4 DEF Files
      <4> QED BY <1>17, <3>4, <4>2, <4>3
    <3> QED BY <3>2, <3>3, <3>4
  <2>2. Intact' /\ entry' = {} => asked' = {}
    BY <1>1, <1>3, <1>10, <1>11 DEF Promised
  <2> QED BY <1>1, <1>3, <1>11, <2>1, <2>2 DEF Promised
<1>21. Closes'
  <2>1. \A r \in Sessions \ abandoned' : ClosedLater(session'[r])
    BY <1>1, <1>3, <1>5, <1>13 DEF Closes, x
  <2>2. \A g \in Files, r \in Sessions : g \in session[r].open => g \in session'[r].open
    BY <1>4, <1>5 DEF x
  <2>3. \A g \in Files : rows[g] = "recording" => madeBy[g] \in Sessions
    BY <1>1 DEF Types, Arrived
  <2> QED BY <1>1, <1>3, <2>1, <2>2, <2>3 DEF Closes
<1> QED BY <1>14, <1>15, <1>16, <1>18, <1>19, <1>20, <1>21 DEF IInv

-----------------------------------------------------------------------------
(* Motion events and the sweep worker: they move files between the gate,   *)
(* the batch and the decisions, and leave the sessions alone.              *)
LEMMA OwnersCalm ==
  ASSUME Types, Owners, UNCHANGED session,
         \A u \in Threads : /\ Halting(u)' = Halting(u)
                            /\ Halting(u) => thread'[u] = thread[u],
         \A e \in entry' : e.session # 0 => \E d \in entry : d.session = e.session,
         \A d \in entry : d.session # 0 => \E e \in entry' : d.session = e.session
  PROVE  Owners'
<1>1. \A s \in Sessions : Alive(s)' = Alive(s) /\ s # 0
  BY DEF Alive, Sessions
<1>2. ASSUME NEW t \in Threads, Halting(t)'
      PROVE  /\ thread'[t].victim # 0
             /\ \A e \in entry' : e.session # thread'[t].victim
             /\ \A u \in Threads : Halting(u)' /\ thread'[u].victim = thread'[t].victim => u = t
             /\ LET phase == session'[thread'[t].victim].phase
                IN  CASE thread'[t].at = "stopping" -> phase = "running"
                      [] thread'[t].at = "draining" -> phase = "draining"
                      [] OTHER -> phase \in {"joining", "leaving"}
  <2>1. Halting(t) /\ thread'[t] = thread[t]
    BY <1>2
  <2> QED BY <2>1 DEF Owners
<1>3. \A e \in entry' : e.session # 0 => session'[e.session].phase = "running"
  BY DEF Owners
<1>4. \A s \in Sessions : Alive(s)' =>
        \/ \E e \in entry' : e.session = s
        \/ \E t \in Threads : Halting(t)' /\ thread'[t].victim = s
  BY <1>1 DEF Owners
<1>5. \A s \in Sessions : ~ Alive(s)' =>
        /\ session'[s].writing = 0 /\ session'[s].open = {} /\ session'[s].bus = <<>>
        /\ session'[s].storing = 0
        /\ session'[s].phase = "unused" => ~ session'[s].drained
  BY <1>1 DEF Owners
<1> QED BY <1>2, <1>3, <1>4, <1>5 DEF Owners

LEMMA OwnersSame ==
  ASSUME Types, Owners, UNCHANGED <<session, thread>>,
         \A e \in entry' : \E d \in entry : d.session = e.session,
         \A d \in entry : \E e \in entry' : d.session = e.session
  PROVE  Owners'
<1>1. \A u \in Threads : /\ Halting(u)' = Halting(u)
                         /\ Halting(u) => thread'[u] = thread[u]
  BY DEF Halting
<1> QED BY <1>1, OwnersCalm

(* What a gate throws away it held, and nothing it was told to save.       *)
LEMMA DroppableIs ==
  ASSUME NEW g \in Gate, NEW due \in SUBSET g.held, NEW drop \in Droppable(g, due)
  PROVE  drop \subseteq due /\ drop \cap g.saves = {}
BY DEF Droppable

LEMMA NoteEventStep == ASSUME IInv, NoteEvent PROVE IInv'
<1> DEFINE sure == Files \cap Coming
           gate == TheEntry.gate
<1>1. Types /\ Turns /\ Owners /\ OnTheWay /\ Arrived /\ Promised /\ Closes
  BY DEF IInv
<1>2. /\ Present /\ TheEntry \in entry /\ entry = {TheEntry} /\ TheEntry \in Entry
      /\ Pending = gate.held /\ gate \in Gate
  BY <1>1, OneEntry DEF NoteEvent
<1>3. PICK young \in SUBSET gate.held :
        /\ asked' = asked \cup sure \cup young
        /\ entry' = {[TheEntry EXCEPT !.gate.hot = TRUE,
                                      !.gate.saves = @ \cup sure \cup young]}
  BY DEF NoteEvent
<1>4. UNCHANGED <<applying, mutex, thread, worker, running, session, madeBy, rows, disk,
                  abandoned, kept, dropped, removed>>
  BY DEF NoteEvent, sessionVars
<1> DEFINE h == gate.saves \cup sure \cup young
           G == [[gate EXCEPT !.hot = TRUE] EXCEPT !.saves = h]
<1>5. entry' = {[e EXCEPT !.gate = G] : e \in entry}
  <2>1. [TheEntry EXCEPT !.gate.hot = TRUE, !.gate.saves = @ \cup sure \cup young]
          = [TheEntry EXCEPT !.gate = G]
    BY <1>2 DEF Entry, Gate
  <2> HIDE DEF G
  <2> QED BY <1>2, <1>3, <2>1
<1>6. gate.held \subseteq Files /\ h \in SUBSET Files
  BY <1>2 DEF Gate
<1> HIDE DEF gate, h
<1>7. [gate EXCEPT !.hot = TRUE] \in Gate /\ [gate EXCEPT !.hot = TRUE].held = gate.held
  <2>1. gate \in [held : SUBSET Files, saves : SUBSET Files, hot : BOOLEAN, present : BOOLEAN]
    BY <1>2 DEF Gate
  <2>2. [gate EXCEPT !.hot = TRUE]
          \in [held : SUBSET Files, saves : SUBSET Files, hot : BOOLEAN, present : BOOLEAN]
    BY <2>1
  <2>3. [gate EXCEPT !.hot = TRUE].held = gate.held
    BY <2>1
  <2> QED BY <2>2, <2>3 DEF Gate
<1>8. G \in Gate /\ G.held = gate.held /\ G.saves = h
  BY <1>6, <1>7, GateFields
<1> HIDE DEF G
<1>9. /\ entry' \subseteq Entry /\ \A d, e \in entry' : d = e
      /\ \A e \in entry' : \E d \in entry : d.session = e.session
      /\ \A d \in entry : \E e \in entry' : d.session = e.session
      /\ \A e \in entry' : e.gate = G
      /\ entry = {} <=> entry' = {}
      /\ Pending' = IF Present THEN G.held ELSE {}
  BY <1>1, <1>5, <1>8, GateMoves
<1>10. /\ Flushed' = Flushed /\ Intact' = Intact /\ BeforeShutdown' = BeforeShutdown
       /\ \A t \in Threads : Halting(t)' = Halting(t)
       /\ Pending' = Pending /\ Settled' = Settled
  BY <1>2, <1>4, <1>8, <1>9 DEF Flushed, Intact, BeforeShutdown, Halting, Settled
<1>11. \A f \in sure : f \in Files /\ \E s \in Sessions :
                         f \in Under(session[s]) \/ f = session[s].storing
  <2>1. \A s \in Sessions : \A f \in OnTheirWay(s) :
          f = session[s].storing \/ f = 0 \/ f \in Under(session[s])
    BY DEF OnTheirWay, Under
  <2>2. \A f \in Files : f # 0
    BY DEF Files
  <2>3. ASSUME NEW f \in sure
        PROVE  f \in Files /\ \E s \in Sessions : f \in OnTheirWay(s)
    BY DEF Coming
  <2> HIDE DEF sure
  <2> QED BY <2>1, <2>2, <2>3
<1>12. \A f \in sure : madeBy[f] # 0 /\ f \notin Settled
  <2> SUFFICES ASSUME NEW f \in sure  PROVE madeBy[f] # 0 /\ f \notin Settled
    OBVIOUS
  <2>1. PICK s \in Sessions : f \in Under(session[s]) \/ f = session[s].storing
    BY <1>11
  <2>2. f \in Files
    BY <1>11
  <2>3. madeBy[f] = s /\ f \notin Settled
    BY <1>1, <2>1, <2>2 DEF OnTheWay, Files
  <2> QED BY <2>3 DEF Sessions
<1> HIDE DEF sure
<1>13. \A f \in young : f \in Pending /\ f \in Files /\ f \in Settled
  BY <1>2, <1>6 DEF Settled, gate
<1>14. Types'
  <2>1. asked' \subseteq Files
    BY <1>1, <1>3, <1>11, <1>13 DEF Types
  <2> QED BY <1>1, <1>4, <1>9, <2>1 DEF Types
<1>15. Turns'
  <2>1. applying # Nobody => \A e \in entry' : e.session = 0
    BY <1>1, <1>9 DEF Turns
  <2> QED BY <1>1, <1>4, <1>10, <2>1 DEF Turns
<1>16. Owners'
  BY <1>1, <1>4, <1>9, OwnersSame
<1>17. OnTheWay'
  BY <1>1, <1>4, <1>10 DEF OnTheWay
<1>18. Arrived'
  <2>1. \A f \in Files : madeBy[f] = 0 => f \notin asked'
    BY <1>1, <1>3, <1>12, <1>13 DEF Arrived
  <2> QED BY <1>1, <1>4, <1>10, <2>1 DEF Arrived
<1>19. Promised'
  <2>1. ~ removed => asked' \cap dropped = {}
    <3>1. sure \cap dropped = {}
      BY <1>12 DEF Settled
    <3>2. young \cap dropped = {}
      BY <1>1, <1>13 DEF Arrived
    <3> QED BY <1>1, <1>3, <3>1, <3>2 DEF Promised
  <2>2. ASSUME Intact', NEW e \in entry', NEW f \in asked'
        PROVE  \/ f \in e.gate.saves
               \/ f \notin e.gate.held /\ \A r \in Sessions :
                                 f \notin Under(session'[r]) \cup {session'[r].storing}
    <3>1. e.gate.saves = h /\ e.gate.held = gate.held
      BY <1>8, <1>9
    <3>2. CASE f \in sure \cup young
      BY <3>1, <3>2 DEF h
    <3>3. CASE f \in asked
      <4>1. \/ f \in gate.saves
            \/ f \notin gate.held /\ \A r \in Sessions :
                                 f \notin Under(session[r]) \cup {session[r].storing}
        BY <1>1, <1>2, <1>10, <2>2, <3>3 DEF Promised, gate
      <4> QED BY <1>4, <3>1, <4>1 DEF h
    <3> QED BY <1>3, <3>2, <3>3
  <2>3. entry' # {}
    BY <1>3
  <2>4. ~ removed => asked' \cap Flushed \subseteq thread[Main].gate.saves
    <3>1. sure \cap Flushed = {}
      BY <1>12 DEF Settled
    <3>2. young \cap Flushed = {}
      BY <1>1, <1>13 DEF Arrived
    <3> QED BY <1>1, <1>3, <3>1, <3>2 DEF Promised
  <2> QED BY <1>4, <1>10, <2>1, <2>2, <2>3, <2>4 DEF Promised
<1>20. Closes'
  BY <1>1, <1>4 DEF Closes
<1> QED BY <1>14, <1>15, <1>16, <1>17, <1>18, <1>19, <1>20 DEF IInv

(* Once the post-roll of an event is over nobody is owed the file that is  *)
(* still being written: the others are promised as they were.              *)
LEMMA PostRollEndsStep == ASSUME IInv, PostRollEnds PROVE IInv'
<1> DEFINE gate == EntryOrNew.gate
           h == gate.saves \ Written
           G == [gate EXCEPT !.saves = h]
<1>1. Types /\ Turns /\ Owners /\ OnTheWay /\ Arrived /\ Promised /\ Closes
  BY DEF IInv
<1>2. /\ EntryOrNew \in Entry /\ gate \in Gate /\ Pending = gate.held
      /\ \A e \in entry : e = EntryOrNew
  BY <1>1, OneEntry DEF Entry
<1>3. /\ asked' = asked \ Written
      /\ entry' = {[e EXCEPT !.gate.saves = @ \ Written] : e \in entry}
      /\ UNCHANGED <<applying, mutex, thread, worker, running, session, madeBy, rows, disk,
                     abandoned, kept, dropped, removed>>
  BY DEF PostRollEnds, sessionVars
<1>4. entry' = {[e EXCEPT !.gate = G] : e \in entry}
  <2>1. \A e \in entry : [e EXCEPT !.gate.saves = @ \ Written] = [e EXCEPT !.gate = G]
    BY <1>2 DEF Entry, Gate
  <2> HIDE DEF G
  <2> QED BY <1>3, <2>1
<1>5. h \in SUBSET Files
  BY <1>2 DEF Gate
<1> HIDE DEF gate, h
<1>6. G \in Gate /\ G.held = gate.held /\ G.saves = h
  BY <1>2, <1>5 DEF Gate
<1> HIDE DEF G
<1>7. /\ entry' \subseteq Entry /\ \A d, e \in entry' : d = e
      /\ \A e \in entry' : \E d \in entry : d.session = e.session
      /\ \A d \in entry : \E e \in entry' : d.session = e.session
      /\ \A e \in entry' : e.gate = G
      /\ entry = {} <=> entry' = {}
      /\ Pending' = IF Present THEN G.held ELSE {}
  BY <1>1, <1>4, <1>6, GateMoves
<1>8. /\ Flushed' = Flushed /\ Intact' = Intact /\ BeforeShutdown' = BeforeShutdown
      /\ \A t \in Threads : Halting(t)' = Halting(t)
      /\ Pending' = Pending /\ Settled' = Settled /\ asked' \subseteq asked
  <2>1. Pending' = Pending
    BY <1>1, <1>2, <1>6, <1>7, OneEntry, NoneYet
  <2> QED BY <1>3, <2>1 DEF Flushed, Intact, BeforeShutdown, Halting, Settled
<1>9. Types'
  BY <1>1, <1>3, <1>7, <1>8 DEF Types
<1>10. Turns'
  <2>1. applying # Nobody => \A e \in entry' : e.session = 0
    BY <1>1, <1>7 DEF Turns
  <2> QED BY <1>1, <1>3, <1>8, <2>1 DEF Turns
<1>11. Owners'
  BY <1>1, <1>3, <1>7, OwnersSame
<1>12. OnTheWay'
  BY <1>1, <1>3, <1>8 DEF OnTheWay
<1>13. Arrived'
  BY <1>1, <1>3, <1>8 DEF Arrived
<1>14. Promised'
  <2>1. ASSUME Intact', NEW e \in entry', NEW f \in asked'
        PROVE  \/ f \in e.gate.saves
               \/ f \notin e.gate.held /\ \A r \in Sessions :
                                 f \notin Under(session'[r]) \cup {session'[r].storing}
    <3>1. e.gate.saves = h /\ e.gate.held = gate.held
      BY <1>6, <1>7
    <3>2. EntryOrNew \in entry
      BY <1>2, <1>7
    <3>3. \/ f \in gate.saves
          \/ f \notin gate.held /\ \A r \in Sessions :
                               f \notin Under(session[r]) \cup {session[r].storing}
      BY <1>1, <1>8, <2>1, <3>2 DEF Promised, gate
    <3>4. f \notin Written
      BY <1>3
    <3> QED BY <1>3, <3>1, <3>3, <3>4 DEF h
  <2> QED BY <1>1, <1>3, <1>7, <1>8, <2>1 DEF Promised
<1>15. Closes'
  BY <1>1, <1>3 DEF Closes
<1> QED BY <1>9, <1>10, <1>11, <1>12, <1>13, <1>14, <1>15 DEF IInv

LEMMA SweepStep == ASSUME IInv, Sweep PROVE IInv'
<1> DEFINE E == EntryOrNew
           gate == EntryOrNew.gate
<1>1. Types /\ Turns /\ Owners /\ OnTheWay /\ Arrived /\ Promised /\ Closes
  BY DEF IInv
<1>2. /\ E \in Entry /\ gate \in Gate /\ Pending = gate.held /\ Pending \subseteq Files
      /\ \A e \in entry : e = E
  BY <1>1, OneEntry DEF Entry
<1> DEFINE Swept(due, drop, forget) ==
        /\ entry' = {[x EXCEPT !.gate = AfterSettle(@, due, forget)] : x \in entry}
        /\ kept' = kept \cup (due \ drop) /\ dropped' = dropped \cup drop
        /\ worker' = [at |-> IF drop # {} THEN "files" ELSE
                             IF E.camera.expires THEN "expire" ELSE "wait",
                      batch |-> drop, expire |-> E.camera.expires]
<1>3. PICK due \in SUBSET gate.held :
        \E drop \in Droppable(gate, due) :
          \E forget \in {FALSE, MayForget(gate, due)} : Swept(due, drop, forget)
  BY DEF Sweep
<1>3a. PICK drop \in Droppable(gate, due) :
         \E forget \in {FALSE, MayForget(gate, due)} : Swept(due, drop, forget)
  BY <1>3
<1>3b. PICK forget \in {FALSE, MayForget(gate, due)} : Swept(due, drop, forget)
  BY <1>3a
<1>4. /\ worker.at = "wait" /\ running
      /\ UNCHANGED <<applying, mutex, thread, running, session, madeBy, abandoned,
                     asked, removed, rows, disk>>
  BY DEF Sweep, workerUnchanged
<1>5. drop \subseteq due /\ drop \cap gate.saves = {} /\ due \subseteq gate.held
  BY <1>2, DroppableIs
<1>6. E.camera.expires \in BOOLEAN
  <2>1. E.camera \in Camera
    BY <1>2, NoneYet, CamerasAreRows DEF Entry, Versions
  <2> QED BY <2>1 DEF Camera
<1> DEFINE h == gate.held \ due
           G == AfterSettle(gate, due, forget)
<1>7. entry' = {[e EXCEPT !.gate = G] : e \in entry}
  <2>1. [E EXCEPT !.gate = AfterSettle(@, due, forget)] = [E EXCEPT !.gate = G]
    BY <1>2 DEF Entry
  <2> HIDE DEF G, E
  <2>2. CASE entry = {}
    BY <1>3b, <2>2
  <2>3. CASE entry # {}
    <3>1. entry = {E}
      BY <1>2, <2>3
    <3> QED BY <1>3b, <2>1, <3>1
  <2> QED BY <2>2, <2>3
<1>8. h \in SUBSET Files
  BY <1>2
<1>9. /\ G \in Gate /\ G.held = h
      /\ G.saves = gate.saves \/ (MayForget(gate, due) /\ G.saves = {})
  <2>1. MayForget(gate, due) \in BOOLEAN
    BY DEF MayForget
  <2>2. forget \in BOOLEAN /\ (forget => MayForget(gate, due)) /\ due \in SUBSET gate.held
    BY <1>3, <1>3b, <2>1
  <2>3. PICK g \in Gate : g = gate
    BY <1>2
  <2>4. due \in SUBSET g.held /\ forget \in BOOLEAN
    BY <2>2, <2>3
  <2>5. G = AfterSettle(g, due, forget) /\ h = g.held \ due
    BY <2>3
  <2> HIDE DEF E, gate, G, h
  <2>6. /\ AfterSettle(g, due, forget) \in Gate
        /\ AfterSettle(g, due, forget).held = g.held \ due
        /\ AfterSettle(g, due, forget).saves = IF forget THEN {} ELSE g.saves
    BY <2>4, AfterSettleIs
  <2> QED BY <2>2, <2>3, <2>5, <2>6
<1> HIDE DEF gate, h, G
<1>10. /\ entry' \subseteq Entry /\ \A d, e \in entry' : d = e
       /\ \A e \in entry' : \E d \in entry : d.session = e.session
       /\ \A d \in entry : \E e \in entry' : d.session = e.session
       /\ \A e \in entry' : e.gate = G
       /\ entry = {} <=> entry' = {}
       /\ Pending' = IF Present THEN G.held ELSE {}
  BY <1>1, <1>7, <1>9, GateMoves
<1>11. worker.batch = {}
  BY <1>1, <1>4 DEF Turns
<1>12. /\ worker'.batch = drop /\ worker'.at \in {"files", "expire", "wait"}
       /\ worker'.at # "files" => drop = {}
       /\ worker' \in [at : {"wait", "files", "rows", "expire", "stopped"},
                       batch : SUBSET Files, expire : BOOLEAN]
  BY <1>2, <1>3b, <1>5, <1>6
<1>13. Pending' \subseteq Pending /\ Pending' \cap due = {}
  BY <1>2, <1>9, <1>10 DEF h, gate
<1>14. /\ Flushed' = Flushed /\ Intact' = Intact /\ BeforeShutdown' = BeforeShutdown
       /\ \A t \in Threads : Halting(t)' = Halting(t)
       /\ Settled' \subseteq Settled /\ due \subseteq Pending
  <2>1. /\ Flushed' = Flushed /\ Intact' = Intact /\ BeforeShutdown' = BeforeShutdown
        /\ \A t \in Threads : Halting(t)' = Halting(t)
    BY <1>4 DEF Flushed, Intact, BeforeShutdown, Halting
  <2>2. due \subseteq Pending /\ drop \subseteq Pending
    BY <1>2, <1>5
  <2> QED BY <1>3b, <1>12, <1>13, <2>1, <2>2 DEF Settled
<1>15. Types'
  <2>1. kept' \subseteq Files /\ dropped' \subseteq Files
    BY <1>1, <1>2, <1>3b, <1>5 DEF Types
  <2> QED BY <1>1, <1>4, <1>10, <1>12, <2>1 DEF Types
<1>16. Turns'
  <2>1. applying # Nobody => \A e \in entry' : e.session = 0
    BY <1>1, <1>10 DEF Turns
  <2>2. BeforeShutdown
    BY <1>1, <1>4 DEF Turns, BeforeShutdown
  <2> QED BY <1>1, <1>4, <1>12, <1>14, <2>1, <2>2 DEF Turns
<1>17. Owners'
  BY <1>1, <1>4, <1>10, OwnersSame
<1>18. OnTheWay'
  BY <1>1, <1>4, <1>14 DEF OnTheWay
<1>19. Arrived'
  <2>1. \A f \in Pending' : rows'[f] = "complete" /\ f \in disk'
    BY <1>1, <1>4, <1>13 DEF Arrived
  <2>2. Pending' \cap (Flushed' \cup kept' \cup dropped' \cup worker'.batch) = {}
    BY <1>1, <1>3b, <1>5, <1>12, <1>13, <1>14 DEF Arrived
  <2>3. \A f \in Files : madeBy'[f] = 0 => f \notin Settled' \cup asked' /\ rows'[f] = "none"
    BY <1>1, <1>4, <1>14 DEF Arrived
  <2> QED BY <2>1, <2>2, <2>3 DEF Arrived
<1>20. Promised'
  <2>1. Intact \/ removed
    BY <1>1, <1>4 DEF Intact, Turns, BeforeShutdown
  <2>2. ~ removed => asked \cap drop = {}
    <3> SUFFICES ASSUME ~ removed, NEW f \in asked, f \in drop  PROVE FALSE
      OBVIOUS
    <3>1. f \in gate.held /\ f \notin gate.saves
      BY <1>5 DEF gate
    <3>2. E \in entry
      BY <1>2, <3>1, NoneYet, OneEntry, <1>1 DEF gate, Present
    <3> QED BY <1>1, <2>1, <3>1, <3>2 DEF Promised, gate
  <2>3. ~ removed => asked' \cap dropped' = {}
    BY <1>1, <1>3b, <1>4, <2>2 DEF Promised
  <2>4. ASSUME Intact', NEW e \in entry', NEW f \in asked'
        PROVE  \/ f \in e.gate.saves
               \/ f \notin e.gate.held /\ \A r \in Sessions :
                                 f \notin Under(session'[r]) \cup {session'[r].storing}
    <3>1. e.gate = G /\ e.gate.held = h /\ h \subseteq gate.held
      BY <1>9, <1>10 DEF h
    <3>2. E \in entry
      BY <1>2, <1>10
    <3>3. \/ f \in gate.saves
          \/ f \notin gate.held /\ \A r \in Sessions :
                                 f \notin Under(session[r]) \cup {session[r].storing}
      BY <1>1, <1>4, <1>14, <2>4, <3>2 DEF Promised, gate
    <3>4. CASE f \notin gate.saves \/ G.saves = gate.saves
      BY <1>4, <3>1, <3>3, <3>4
    <3>5. CASE f \in gate.saves /\ MayForget(gate, due)
      <4>1. f \notin h /\ f \notin Coming
        BY <3>5 DEF MayForget, StillHeld, h
      <4>2. \A r \in Sessions : Under(session[r]) \cup {session[r].storing} \subseteq OnTheirWay(r)
        BY DEF Under, OnTheirWay
      <4>3. \A r \in Sessions : f \notin OnTheirWay(r)
        BY <4>1 DEF Coming
      <4> QED BY <1>4, <3>1, <4>1, <4>2, <4>3
    <3> QED BY <1>9, <3>4, <3>5
  <2>5. Intact' /\ entry' = {} => asked' = {}
    BY <1>1, <1>4, <1>10, <1>14 DEF Promised
  <2> QED BY <1>1, <1>4, <1>14, <2>3, <2>4, <2>5 DEF Promised
<1>21. Closes'
  BY <1>1, <1>4 DEF Closes
<1> QED BY <1>15, <1>16, <1>17, <1>18, <1>19, <1>20, <1>21 DEF IInv

LEMMA RetireStep == ASSUME IInv, Retire PROVE IInv'
<1>1. Types /\ Turns /\ Owners /\ OnTheWay /\ Arrived /\ Promised /\ Closes
  BY DEF IInv
<1>2. PICK old \in SUBSET (ExpiredRows \ ({session[s].storing : s \in Sessions}
                                           \cup UNION {e.gate.held : e \in entry})) :
        worker' = [at |-> IF old = {} THEN "wait" ELSE "files", batch |-> old, expire |-> FALSE]
  BY DEF Retire
<1>3. /\ worker.at = "expire"
      /\ UNCHANGED <<entry, applying, mutex, thread, running, session, madeBy, abandoned,
                     asked, removed, rows, disk, kept, dropped>>
  BY DEF Retire, workerUnchanged
<1>4. \A f \in old : /\ f \in Files /\ rows[f] = "complete" /\ f \notin Pending
                     /\ \A s \in Sessions : session[s].storing # f
  BY <1>2 DEF ExpiredRows, Pending
<1>5. /\ worker'.batch = old /\ worker'.at \in {"wait", "files"}
      /\ worker'.at = "wait" => old = {}
      /\ worker' \in [at : {"wait", "files", "rows", "expire", "stopped"},
                      batch : SUBSET Files, expire : BOOLEAN]
  BY <1>2, <1>4
<1>6. /\ Flushed' = Flushed /\ Intact' = Intact /\ BeforeShutdown' = BeforeShutdown
      /\ \A t \in Threads : Halting(t)' = Halting(t)
      /\ Pending' = Pending /\ Settled' \subseteq Settled \cup old
  BY <1>3, <1>5 DEF Flushed, Intact, BeforeShutdown, Halting, Pending, Settled
<1>7. Types'
  BY <1>1, <1>3, <1>5 DEF Types
<1>8. Turns'
  BY <1>1, <1>3, <1>5, <1>6 DEF Turns
<1>9. Owners'
  BY <1>1, <1>3, OwnersSame
<1>10. OnTheWay'
  <2>1. ASSUME NEW r \in Sessions, NEW g \in Under(session'[r])
        PROVE  /\ madeBy'[g] = r /\ g \in disk' /\ rows'[g] # "complete" /\ g \notin Settled'
    <3>1. madeBy[g] = r /\ g \in disk /\ rows[g] # "complete" /\ g \notin Settled
      BY <1>1, <1>3 DEF OnTheWay
    <3> QED BY <1>3, <1>4, <1>6, <3>1
  <2>2. ASSUME NEW r \in Sessions, session'[r].storing # 0
        PROVE  LET g == session'[r].storing
               IN  madeBy'[g] = r /\ g \in disk' /\ rows'[g] = "complete" /\ g \notin Settled'
    BY <1>1, <1>3, <1>4, <1>6, <2>2 DEF OnTheWay
  <2> QED BY <1>1, <1>3, <2>1, <2>2 DEF OnTheWay
<1>11. Arrived'
  <2>1. Pending' \cap (Flushed' \cup kept' \cup dropped' \cup worker'.batch) = {}
    BY <1>1, <1>3, <1>4, <1>5, <1>6 DEF Arrived
  <2>2. \A f \in Files : madeBy'[f] = 0 => f \notin Settled' \cup asked' /\ rows'[f] = "none"
    BY <1>1, <1>3, <1>4, <1>6 DEF Arrived
  <2> QED BY <1>1, <1>3, <1>6, <2>1, <2>2 DEF Arrived
<1>12. Promised'
  BY <1>1, <1>3, <1>6 DEF Promised
<1>13. Closes'
  BY <1>1, <1>3 DEF Closes
<1> QED BY <1>7, <1>8, <1>9, <1>10, <1>11, <1>12, <1>13 DEF IInv

LEMMA DeleteFilesStep == ASSUME IInv, DeleteFiles PROVE IInv'
<1>1. Types /\ Turns /\ Owners /\ OnTheWay /\ Arrived /\ Promised /\ Closes
  BY DEF IInv
<1>2. /\ worker.at = "files" /\ disk' = disk \ worker.batch
      /\ worker' = [worker EXCEPT !.at = "rows"]
      /\ UNCHANGED <<entry, applying, mutex, thread, running, session, madeBy, abandoned,
                     asked, removed, rows, kept, dropped>>
  BY DEF DeleteFiles, workerUnchanged
<1>3. /\ worker'.batch = worker.batch /\ worker'.at = "rows"
      /\ worker' \in [at : {"wait", "files", "rows", "expire", "stopped"},
                      batch : SUBSET Files, expire : BOOLEAN]
  BY <1>1, <1>2 DEF Types
<1>4. /\ Flushed' = Flushed /\ Intact' = Intact /\ BeforeShutdown' = BeforeShutdown
      /\ \A t \in Threads : Halting(t)' = Halting(t)
      /\ Pending' = Pending /\ Settled' = Settled
  BY <1>2, <1>3 DEF Flushed, Intact, BeforeShutdown, Halting, Pending, Settled
<1>5. \A f : f \notin Settled /\ f \in disk => f \in disk'
  BY <1>2 DEF Settled
<1>6. Types'
  BY <1>1, <1>2, <1>3 DEF Types
<1>7. Turns'
  BY <1>1, <1>2, <1>3, <1>4 DEF Turns
<1>8. Owners'
  BY <1>1, <1>2, OwnersSame
<1>9. OnTheWay'
  BY <1>1, <1>2, <1>4, <1>5 DEF OnTheWay
<1>10. Arrived'
  BY <1>1, <1>2, <1>3, <1>4 DEF Arrived
<1>11. Promised'
  BY <1>1, <1>2, <1>4 DEF Promised
<1>12. Closes'
  BY <1>1, <1>2 DEF Closes
<1> QED BY <1>6, <1>7, <1>8, <1>9, <1>10, <1>11, <1>12 DEF IInv

LEMMA DeleteRowsStep == ASSUME IInv, DeleteRows PROVE IInv'
<1> DEFINE at == IF worker.expire THEN "expire" ELSE "wait"
<1>1. Types /\ Turns /\ Owners /\ OnTheWay /\ Arrived /\ Promised /\ Closes
  BY DEF IInv
<1>2. /\ worker.at = "rows"
      /\ worker' = [[worker EXCEPT !.at = at] EXCEPT !.batch = {}]
      /\ UNCHANGED <<entry, applying, mutex, thread, running, session, madeBy, abandoned,
                     asked, removed, disk, kept, dropped>>
  BY <1>1 DEF DeleteRows, workerUnchanged, Types
<1>3. /\ rows' \in [Files -> {"none", "recording", "complete"}]
      /\ \A f \in Files : rows'[f] = rows[f] \/ (f \in worker.batch /\ rows'[f] = "none")
  BY <1>1 DEF DeleteRows, Unlisted, Types
<1>4. at \in {"expire", "wait"}
  OBVIOUS
<1> HIDE DEF at
<1>5. /\ worker'.batch = {} /\ worker'.at = at
      /\ worker' \in [at : {"wait", "files", "rows", "expire", "stopped"},
                      batch : SUBSET Files, expire : BOOLEAN]
  <2>1. [worker EXCEPT !.at = at]
          \in [at : {"wait", "files", "rows", "expire", "stopped"},
               batch : SUBSET Files, expire : BOOLEAN]
    BY <1>1, <1>4 DEF Types
  <2>2. [worker EXCEPT !.at = at].at = at
    BY <1>1 DEF Types
  <2> QED BY <1>2, <2>1, <2>2
<1>6. /\ Flushed' = Flushed /\ Intact' = Intact /\ BeforeShutdown' = BeforeShutdown
      /\ \A t \in Threads : Halting(t)' = Halting(t)
      /\ Pending' = Pending /\ Settled' \subseteq Settled
  BY <1>2, <1>5 DEF Flushed, Intact, BeforeShutdown, Halting, Pending, Settled
<1>7. \A f \in Files : f \notin worker.batch => rows'[f] = rows[f]
  BY <1>3
<1>8. Types'
  BY <1>1, <1>2, <1>3, <1>5 DEF Types
<1>9. Turns'
  BY <1>1, <1>2, <1>4, <1>5, <1>6 DEF Turns
<1>10. Owners'
  BY <1>1, <1>2, OwnersSame
<1>11. OnTheWay'
  <2>1. ASSUME NEW r \in Sessions, NEW g \in Under(session'[r])
        PROVE  /\ madeBy'[g] = r /\ g \in disk' /\ rows'[g] # "complete" /\ g \notin Settled'
    <3>1. /\ madeBy[g] = r /\ g \in disk /\ rows[g] # "complete" /\ g \notin Settled
          /\ g \in Files
      BY <1>1, <1>2 DEF OnTheWay, Types
    <3> QED BY <1>2, <1>6, <1>7, <3>1 DEF Settled
  <2>2. ASSUME NEW r \in Sessions, session'[r].storing # 0
        PROVE  LET g == session'[r].storing
               IN  madeBy'[g] = r /\ g \in disk' /\ rows'[g] = "complete" /\ g \notin Settled'
    <3> DEFINE g == session[r].storing
    <3>1. /\ madeBy[g] = r /\ g \in disk /\ rows[g] = "complete" /\ g \notin Settled
          /\ g \in Files
      BY <1>1, <1>2, <2>2 DEF OnTheWay, Types
    <3> QED BY <1>2, <1>6, <1>7, <3>1 DEF Settled
  <2> QED BY <1>1, <1>2, <2>1, <2>2 DEF OnTheWay
<1>12. Arrived'
  <2>1. ASSUME NEW f \in Pending'  PROVE rows'[f] = "complete" /\ f \in disk'
    <3>1. f \in Pending /\ rows[f] = "complete" /\ f \in disk /\ f \in Files
          /\ f \notin worker.batch
      BY <1>1, <1>6, <2>1 DEF Arrived, Types
    <3> QED BY <1>2, <1>7, <3>1
  <2>2. Pending' \cap (Flushed' \cup kept' \cup dropped' \cup worker'.batch) = {}
    BY <1>1, <1>2, <1>5, <1>6 DEF Arrived
  <2>3. \A f \in Files : madeBy'[f] = 0 => f \notin Settled' \cup asked' /\ rows'[f] = "none"
    BY <1>1, <1>2, <1>3, <1>6 DEF Arrived
  <2> QED BY <2>1, <2>2, <2>3 DEF Arrived
<1>13. Promised'
  BY <1>1, <1>2, <1>6 DEF Promised
<1>14. Closes'
  BY <1>1, <1>2, <1>3 DEF Closes
<1> QED BY <1>8, <1>9, <1>10, <1>11, <1>12, <1>13, <1>14 DEF IInv

LEMMA WorkerExitsStep == ASSUME IInv, WorkerExits PROVE IInv'
<1>1. Types /\ Turns /\ Owners /\ OnTheWay /\ Arrived /\ Promised /\ Closes
  BY DEF IInv
<1>2. /\ worker.at = "wait" /\ ~ running /\ worker' = [worker EXCEPT !.at = "stopped"]
      /\ UNCHANGED <<entry, applying, mutex, thread, running, session, madeBy, abandoned,
                     asked, removed, rows, disk, kept, dropped>>
  BY DEF WorkerExits, sessionVars, historyVars
<1>3. /\ worker'.batch = worker.batch /\ worker'.at = "stopped" /\ worker.batch = {}
      /\ worker' \in [at : {"wait", "files", "rows", "expire", "stopped"},
                      batch : SUBSET Files, expire : BOOLEAN]
  BY <1>1, <1>2 DEF Types, Turns
<1>4. /\ Flushed' = Flushed /\ Intact' = Intact /\ BeforeShutdown' = BeforeShutdown
      /\ \A t \in Threads : Halting(t)' = Halting(t)
      /\ Pending' = Pending /\ Settled' = Settled
  BY <1>2, <1>3 DEF Flushed, Intact, BeforeShutdown, Halting, Pending, Settled
<1>5. Types'
  BY <1>1, <1>2, <1>3 DEF Types
<1>6. Turns'
  BY <1>1, <1>2, <1>3, <1>4 DEF Turns
<1>7. Owners'
  BY <1>1, <1>2, OwnersSame
<1>8. OnTheWay'
  BY <1>1, <1>2, <1>4 DEF OnTheWay
<1>9. Arrived'
  BY <1>1, <1>2, <1>3, <1>4 DEF Arrived
<1>10. Promised'
  BY <1>1, <1>2, <1>4 DEF Promised
<1>11. Closes'
  BY <1>1, <1>2 DEF Closes
<1> QED BY <1>5, <1>6, <1>7, <1>8, <1>9, <1>10, <1>11 DEF IInv

-----------------------------------------------------------------------------
(* The threads.  One of them moves, the others are where they were.        *)
LEMMA Moved ==
  ASSUME Types, NEW t \in Threads, NEW l \in Locals, thread' = [thread EXCEPT ![t] = l]
  PROVE  /\ thread' \in [Threads -> Locals] /\ thread'[t] = l
         /\ \A u \in Threads : u # t => thread'[u] = thread[u]
         /\ Main \in Threads /\ \A c \in Callers : c \in Threads /\ c # Main
BY RecorderAssumption DEF Types, Threads

(* A thread takes the session out of the entry, to stop it.                *)
LEMMA OwnersTake ==
  ASSUME Types, Owners, NEW t \in Threads, NEW l \in Locals, ~ Halting(t),
         thread' = [thread EXCEPT ![t] = l], UNCHANGED session,
         NEW e \in entry, e.session # 0, l.at = "stopping", l.victim = e.session,
         \A d \in entry' : d.session = 0
  PROVE  Owners'
<1>1. /\ thread' \in [Threads -> Locals] /\ thread'[t] = l
      /\ \A u \in Threads : u # t => thread'[u] = thread[u]
  BY Moved
<1>2. Halting(t)' /\ \A u \in Threads : u # t => (Halting(u)' <=> Halting(u))
  BY <1>1 DEF Halting
<1>3. \A s \in Sessions : (Alive(s)' <=> Alive(s)) /\ s # 0
  BY DEF Alive, Sessions
<1>4. \A d \in entry : d = e
  BY DEF Types
<1>5. ASSUME NEW u \in Threads, Halting(u)'
      PROVE  /\ thread'[u].victim # 0
             /\ \A d \in entry' : d.session # thread'[u].victim
             /\ \A v \in Threads : Halting(v)' /\ thread'[v].victim = thread'[u].victim => v = u
             /\ LET phase == session'[thread'[u].victim].phase
                IN  CASE thread'[u].at = "stopping" -> phase = "running"
                      [] thread'[u].at = "draining" -> phase = "draining"
                      [] OTHER -> phase \in {"joining", "leaving"}
  <2>1. CASE u = t
    <3>1. \A v \in Threads : Halting(v)' /\ v # t => thread'[v].victim # e.session
      BY <1>1, <1>2 DEF Owners
    <3>2. session[e.session].phase = "running"
      BY DEF Owners
    <3> QED BY <1>1, <2>1, <3>1, <3>2
  <2>2. CASE u # t
    <3>1. Halting(u) /\ thread'[u] = thread[u]
      BY <1>1, <1>2, <1>5, <2>2
    <3>2. /\ thread[u].victim # 0 /\ thread[u].victim # e.session
          /\ \A v \in Threads : Halting(v) /\ thread[v].victim = thread[u].victim => v = u
          /\ LET phase == session[thread[u].victim].phase
             IN  CASE thread[u].at = "stopping" -> phase = "running"
                   [] thread[u].at = "draining" -> phase = "draining"
                   [] OTHER -> phase \in {"joining", "leaving"}
      BY <3>1 DEF Owners
    <3>3. \A v \in Threads : Halting(v)' /\ thread'[v].victim = thread'[u].victim => v = u
      BY <1>1, <1>2, <3>1, <3>2
    <3> QED BY <3>1, <3>2, <3>3
  <2> QED BY <2>1, <2>2
<1>6. ASSUME NEW s \in Sessions, Alive(s)'
      PROVE  \E u \in Threads : Halting(u)' /\ thread'[u].victim = s
  <2>1. CASE s = e.session
    BY <1>1, <1>2, <2>1
  <2>2. CASE s # e.session
    <3>1. PICK u \in Threads : Halting(u) /\ thread[u].victim = s
      BY <1>3, <1>4, <1>6, <2>2 DEF Owners
    <3> QED BY <1>1, <1>2, <3>1
  <2> QED BY <2>1, <2>2
<1>7. \A s \in Sessions : ~ Alive(s)' =>
        /\ session'[s].writing = 0 /\ session'[s].open = {} /\ session'[s].bus = <<>>
        /\ session'[s].storing = 0
        /\ session'[s].phase = "unused" => ~ session'[s].drained
  BY <1>3 DEF Owners
<1> QED BY <1>5, <1>6, <1>7 DEF Owners

LEMMA CallApplyStep == ASSUME IInv, NEW t \in Callers, CallApply(t) PROVE IInv'
<1>1. Types /\ Turns /\ Owners /\ OnTheWay /\ Arrived /\ Promised /\ Closes
  BY DEF IInv
<1>2. PICK cam \in Cameras, known \in BOOLEAN :
        thread' = [thread EXCEPT ![t] =
                     [Idle EXCEPT !.at = "enter", !.camera = cam, !.known = known]]
  BY DEF CallApply
<1>3. /\ thread[t].at = "idle"
      /\ UNCHANGED <<entry, applying, mutex, worker, running, session, madeBy, rows, disk,
                     abandoned, asked, kept, dropped, removed>>
  BY DEF CallApply, sessionVars
<1> DEFINE l == [Idle EXCEPT !.at = "enter", !.camera = cam, !.known = known]
<1>4. l \in Locals /\ l.at = "enter" /\ ~ l.build
  <2>1. Idle \in Locals /\ ~ Idle.build /\ cam \in Versions
    BY NoneYet DEF Versions
  <2>2. l \in Locals /\ l.at = "enter" /\ l.build = Idle.build
    BY <2>1 DEF Locals
  <2> QED BY <2>1, <2>2
<1> HIDE DEF l
<1>5. /\ thread' \in [Threads -> Locals] /\ thread'[t] = l
      /\ \A u \in Threads : u # t => thread'[u] = thread[u]
      /\ Main \in Threads /\ \A c \in Callers : c \in Threads /\ c # Main
  <2>1. thread' = [thread EXCEPT ![t] = l] /\ t \in Threads
    BY <1>2 DEF l, Threads
  <2> QED BY <1>1, <1>4, <2>1, Moved
<1>6. thread'[Main] = thread[Main] /\ t \in Threads
  BY <1>5
<1>7. \A u \in Threads : /\ Halting(u)' = Halting(u)
                         /\ Halting(u) => thread'[u] = thread[u]
  BY <1>3, <1>4, <1>5 DEF Halting
<1>8. /\ Flushed' = Flushed /\ Intact' = Intact /\ BeforeShutdown' = BeforeShutdown
      /\ Pending' = Pending /\ Settled' = Settled
  BY <1>3, <1>6 DEF Flushed, Intact, BeforeShutdown, Pending, Settled
<1>9. Types'
  BY <1>1, <1>3, <1>5 DEF Types
<1>10. Turns'
  <2>1. \A u \in Callers : thread'[u].at \notin {"joinWorker", "flush", "stopped"}
    BY <1>1, <1>4, <1>5 DEF Turns
  <2>2. \A u \in Threads : /\ thread'[u].at = "build" => thread'[u].build
                           /\ thread'[u].build => applying' = u
    BY <1>1, <1>3, <1>4, <1>5 DEF Turns
  <2>3. Intact' => \A u \in Threads : Halting(u)' => applying' = u
    BY <1>1, <1>3, <1>7, <1>8 DEF Turns
  <2> QED BY <1>1, <1>3, <1>6, <1>8, <2>1, <2>2, <2>3 DEF Turns
<1>11. Owners'
  BY <1>1, <1>3, <1>7, OwnersCalm
<1>12. OnTheWay'
  BY <1>1, <1>3, <1>8 DEF OnTheWay
<1>13. Arrived'
  BY <1>1, <1>3, <1>8 DEF Arrived
<1>14. Promised'
  BY <1>1, <1>3, <1>6, <1>8 DEF Promised
<1>15. Closes'
  BY <1>1, <1>3 DEF Closes
<1> QED BY <1>9, <1>10, <1>11, <1>12, <1>13, <1>14, <1>15 DEF IInv

LEMMA DecideStep == ASSUME IInv, NEW t \in Threads, Decide(t) PROVE IInv'
<1> DEFINE E == EntryOrNew
           d == Decision(E, thread[t].camera, thread[t].known)
           at == IF d.victim # 0 THEN "stopping" ELSE IF d.build THEN "build" ELSE "idle"
           m == [[[thread[t] EXCEPT !.at = at] EXCEPT !.victim = d.victim]
                   EXCEPT !.build = d.build]
           l == IF at = "idle" THEN Idle ELSE m
<1>1. Types /\ Turns /\ Owners /\ OnTheWay /\ Arrived /\ Promised /\ Closes
  BY DEF IInv
<1>2. thread[t] \in Locals /\ t \in Callers /\ t # Main
  BY <1>1, RecorderAssumption DEF Types, Turns, Decide, Threads
<1>3. E \in Entry /\ Pending = E.gate.held /\ (\A e \in entry : e = E) /\ E.gate \in Gate
      /\ (entry = {} => E = NewEntry)
  BY <1>1, OneEntry DEF Entry, Present
<1>4. /\ thread[t].at = "enter" /\ applying = Nobody /\ mutex' = Nobody
      /\ entry' = {d.entry} /\ applying' = IF at = "idle" THEN applying ELSE t
      /\ UNCHANGED <<worker, running, session, madeBy, rows, disk, abandoned, asked, kept,
                     dropped, removed>>
  BY DEF Decide, MayApply, MutexWhileStopping, sessionVars, historyVars
<1>5. thread' = [thread EXCEPT ![t] = l]
  <2>1. thread' = [thread EXCEPT ![t] =
          IF at = "idle" THEN Idle
          ELSE [thread[t] EXCEPT !.at = at, !.victim = d.victim, !.build = d.build]]
    BY <1>1 DEF Decide, Types
  <2> HIDE DEF d, at
  <2>2. [thread[t] EXCEPT !.at = at, !.victim = d.victim, !.build = d.build] = m
    BY <1>2 DEF Locals
  <2> QED BY <2>1, <2>2
<1> HIDE DEF m
<1>6. /\ d.entry \in Entry /\ d.entry.gate = E.gate /\ d.build \in BOOLEAN
      /\ d.victim \in Sessions \cup {0}
      /\ \/ d.victim = 0 /\ ~ d.build /\ d.entry.session = E.session
         \/ d.victim = E.session /\ d.entry.session = 0 /\ (d.victim # 0 \/ d.build)
  <2>1. thread[t].camera \in Versions /\ thread[t].known \in BOOLEAN
    BY <1>2 DEF Locals
  <2> DEFINE cam == thread[t].camera
             known == thread[t].known
  <2>2. cam \in Versions /\ known \in BOOLEAN /\ E \in Entry /\ d = Decision(E, cam, known)
    BY <1>3, <2>1
  <2> HIDE DEF d, E, cam, known
  <2> QED BY <2>2, Decided
<1> HIDE DEF d, E
<1>7. at \in {"stopping", "build", "idle"}
  OBVIOUS
<1>8. m \in Locals /\ m.at = at /\ m.victim = d.victim /\ m.build = d.build
      /\ m.gate = thread[t].gate
  <2> HIDE DEF at
  <2> DEFINE p == [thread[t] EXCEPT !.at = at]
             q == [p EXCEPT !.victim = d.victim]
  <2>1. p \in Locals /\ p.at = at /\ p.gate = thread[t].gate
    BY <1>2, <1>7 DEF Locals
  <2> HIDE DEF p
  <2>2. q \in Locals /\ q.at = at /\ q.gate = thread[t].gate /\ q.victim = d.victim
    BY <1>6, <2>1 DEF Locals
  <2>3. m = [q EXCEPT !.build = d.build]
    BY DEF m, p
  <2> HIDE DEF q
  <2> QED BY <1>6, <2>2, <2>3 DEF Locals
<1>9. l \in Locals /\ l.at = at
      /\ (at = "stopping" => l.victim = d.victim /\ d.victim = E.session /\ d.victim # 0
                             /\ d.entry.session = 0)
      /\ (at = "idle" => ~ l.build /\ d.entry.session = E.session)
      /\ (at = "build" => l.build /\ d.entry.session = 0 /\ E.session = 0)
  <2>1. Idle \in Locals /\ Idle.at = "idle" /\ ~ Idle.build
    BY NoneYet
  <2>2. CASE d.victim # 0
    BY <1>6, <1>8, <2>2
  <2>3. CASE d.victim = 0 /\ d.build
    BY <1>6, <1>8, <2>3
  <2>4. CASE d.victim = 0 /\ ~ d.build
    BY <1>6, <2>1, <2>4
  <2> QED BY <2>2, <2>3, <2>4
<1> HIDE DEF l, at
<1>10. /\ thread' \in [Threads -> Locals] /\ thread'[t] = l
       /\ \A u \in Threads : u # t => thread'[u] = thread[u]
       /\ Main \in Threads /\ \A c \in Callers : c \in Threads /\ c # Main
  BY <1>1, <1>5, <1>9, Moved
<1>11. thread'[Main] = thread[Main]
  BY <1>2, <1>10
<1>12. Pending' = Pending
  BY <1>3, <1>4, <1>6 DEF Pending
<1>13. /\ Flushed' = Flushed /\ Intact' = Intact /\ BeforeShutdown' = BeforeShutdown
       /\ Settled' = Settled
  BY <1>4, <1>11, <1>12 DEF Flushed, Intact, BeforeShutdown, Settled
<1>14. /\ ~ Halting(t) /\ (Halting(t)' <=> at = "stopping")
       /\ \A u \in Threads : u # t => (Halting(u)' <=> Halting(u))
  BY <1>4, <1>7, <1>9, <1>10 DEF Halting
<1>15. Types'
  <2>1. applying' \in Threads \cup {Nobody}
    BY <1>1, <1>4 DEF Types
  <2>2. entry' \subseteq Entry /\ \A x, y \in entry' : x = y
    BY <1>4, <1>6
  <2> QED BY <1>1, <1>4, <1>10, <2>1, <2>2 DEF Types
<1>16. Turns'
  <2>1. \A u \in Callers : thread'[u].at \notin {"joinWorker", "flush", "stopped"}
    BY <1>1, <1>7, <1>9, <1>10 DEF Turns
  <2>2. \A u \in Threads : u # t => ~ thread[u].build
    BY <1>1, <1>4, RecorderAssumption DEF Turns, Threads
  <2>3. \A u \in Threads : /\ thread'[u].at = "build" => thread'[u].build
                           /\ thread'[u].build => applying' = u
    BY <1>1, <1>4, <1>7, <1>9, <1>10, <2>2 DEF Turns
  <2>4. applying' # Nobody => \A e \in entry' : e.session = 0
    BY <1>4, <1>7, <1>9
  <2>5. Intact' => \A u \in Threads : Halting(u)' => applying' = u
    <3> SUFFICES ASSUME Intact', NEW u \in Threads, Halting(u)'  PROVE applying' = u
      OBVIOUS
    <3>1. CASE u = t
      BY <1>4, <1>14, <3>1
    <3>2. CASE u # t
      <4>1. Halting(u) /\ applying = u
        BY <1>1, <1>13, <1>14, <3>2 DEF Turns
      <4> QED BY <1>4, <4>1, RecorderAssumption DEF Threads
    <3> QED BY <3>1, <3>2
  <2> QED BY <1>1, <1>4, <1>11, <1>13, <2>1, <2>3, <2>4, <2>5 DEF Turns
<1>17. Owners'
  <2>1. CASE at = "stopping"
    <3>1. E \in entry
      BY <1>3, <1>9, <2>1, NoneYet
    <3>2. \A x \in entry' : x.session = 0
      BY <1>4, <1>9, <2>1
    <3> QED BY <1>1, <1>4, <1>5, <1>9, <1>14, <2>1, <3>1, <3>2, OwnersTake
  <2>2. CASE at # "stopping"
    <3>1. d.entry.session = E.session
      BY <1>7, <1>9, <2>2
    <3>2. \A u \in Threads : /\ Halting(u)' = Halting(u)
                             /\ Halting(u) => thread'[u] = thread[u]
      BY <1>10, <1>14, <2>2 DEF Halting
    <3>3. \A e \in entry' : e.session # 0 => \E x \in entry : x.session = e.session
      BY <1>3, <1>4, <3>1, NoneYet
    <3>4. \A x \in entry : x.session # 0 => \E e \in entry' : x.session = e.session
      BY <1>3, <1>4, <3>1
    <3> QED BY <1>1, <1>4, <3>2, <3>3, <3>4, OwnersCalm
  <2> QED BY <2>1, <2>2
<1>18. OnTheWay'
  BY <1>1, <1>4, <1>13 DEF OnTheWay
<1>19. Arrived'
  BY <1>1, <1>4, <1>12, <1>13 DEF Arrived
<1>20. Promised'
  <2>1. ASSUME Intact', NEW e \in entry', NEW f \in asked'
        PROVE  \/ f \in e.gate.saves
               \/ f \notin e.gate.held /\ \A r \in Sessions :
                                 f \notin Under(session'[r]) \cup {session'[r].storing}
    <3>1. Intact /\ f \in asked /\ E \in entry /\ e.gate = E.gate
      BY <1>1, <1>3, <1>4, <1>6, <1>13, <2>1 DEF Promised
    <3> QED BY <1>1, <1>4, <3>1 DEF Promised
  <2> QED BY <1>1, <1>4, <1>11, <1>13, <2>1 DEF Promised
<1>21. Closes'
  BY <1>1, <1>4 DEF Closes
<1> QED BY <1>15, <1>16, <1>17, <1>18, <1>19, <1>20, <1>21 DEF IInv

(* A new session: nobody is stopping one, so nothing is left on the way.   *)
LEMMA BuildStep == ASSUME IInv, NEW t \in Threads, Build(t) PROVE IInv'
<1> DEFINE E == EntryOrNew
           cam == thread[t].camera
           unused == {s \in Sessions : session[s].phase = "unused"}
           s == CHOOSE s \in unused : \A r \in unused : s <= r
           mode == EffectiveMode(cam)
           n == [[session[s] EXCEPT !.phase = "running"] EXCEPT !.mode = mode]
           Built == /\ unused # {} /\ session' = [session EXCEPT ![s] = n]
                    /\ entry' = {[E EXCEPT !.session = s, !.gate = NewGate,
                                           !.builtShape = cam.shape, !.builtMode = mode]}
<1>1. Types /\ Turns /\ Owners /\ OnTheWay /\ Arrived /\ Promised /\ Closes
  BY DEF IInv
<1>2. thread[t] \in Locals /\ t \in Callers /\ t # Main /\ applying = t /\ t # Nobody
  BY <1>1, RecorderAssumption DEF Types, Turns, Build, Threads
<1>3. E \in Entry /\ Pending = E.gate.held /\ (\A e \in entry : e = E) /\ E.gate \in Gate
      /\ (entry = {} => E = NewEntry) /\ (entry # {} => E \in entry)
  BY <1>1, OneEntry DEF Entry, Present
<1>4. /\ thread[t].at = "build" /\ thread' = [thread EXCEPT ![t] = Idle]
      /\ applying' = Nobody /\ mutex' = Nobody
      /\ UNCHANGED <<worker, running, madeBy, rows, disk, abandoned, asked, kept, dropped,
                     removed>>
  BY DEF Build, historyVars
<1>5. \/ Built
      \/ entry' = {E} /\ session' = session
      \/ entry' = {[E EXCEPT !.gate = NewGate]} /\ session' = session
  <2>1. \/ /\ unused # {}
           /\ session' = [session EXCEPT ![s].phase = "running", ![s].mode = mode]
           /\ entry' = {[E EXCEPT !.session = s, !.gate = NewGate,
                                  !.builtShape = cam.shape, !.builtMode = mode]}
        \/ entry' = {E} /\ session' = session
        \/ entry' = {[E EXCEPT !.gate = NewGate]} /\ session' = session
    BY DEF Build, GateAfterBuild
  <2>2. unused # {} => s \in Sessions
    <3>1. unused \in SUBSET Nat
      BY RecorderAssumption DEF Sessions
    <3>2. unused # {} => \E x \in unused : \A r \in unused : x <= r
      BY <3>1, Least
    <3>3. unused # {} => s \in unused
      BY <3>2
    <3> QED BY <3>3
  <2>3. unused # {} =>
          [session EXCEPT ![s].phase = "running", ![s].mode = mode] = [session EXCEPT ![s] = n]
    <3> HIDE DEF s, mode
    <3> QED BY <1>1, <2>2 DEF Types, Recording
  <2> HIDE DEF s, mode, unused, n
  <2> QED BY <2>1, <2>3
<1>6. unused # {} => s \in Sessions /\ session[s].phase = "unused"
  <2>1. unused \in SUBSET Nat
    BY RecorderAssumption DEF Sessions
  <2>2. unused # {} => \E x \in unused : \A r \in unused : x <= r
    BY <2>1, Least
  <2>3. unused # {} => s \in unused
    BY <2>2
  <2> QED BY <2>3
<1>7. cam \in Camera /\ mode \in Modes /\ cam.shape \in 0 .. 2
  <2>1. cam \in Camera
    BY <1>2, NoneYet, CamerasAreRows DEF Locals, Versions
  <2> QED BY <2>1 DEF EffectiveMode, Camera, Modes
<1>8. \A e \in entry : e.session = 0
  BY <1>1, <1>2 DEF Turns
<1>9. E.session = 0
  BY <1>3, <1>8, NoneYet
<1> HIDE DEF s, unused, E, mode, cam
<1>10. ASSUME Built
       PROVE  /\ s \in Sessions /\ n \in Recording /\ n.phase = "running" /\ n.bus = <<>>
              /\ n.writing = 0 /\ n.open = {} /\ n.storing = 0 /\ ~ n.drained
  <2>1. s \in Sessions /\ session[s].phase = "unused" /\ session[s] \in Recording
    BY <1>1, <1>6, <1>10, Kinds
  <2>2. /\ session[s].writing = 0 /\ session[s].open = {} /\ session[s].bus = <<>>
        /\ session[s].storing = 0 /\ ~ session[s].drained
    BY <1>1, <2>1 DEF Owners, Alive
  <2> DEFINE y == [session[s] EXCEPT !.phase = "running"]
  <2>3. y \in Recording /\ y.phase = "running" /\ y.bus = <<>> /\ y.writing = 0
        /\ y.open = {} /\ y.storing = 0 /\ ~ y.drained
    BY <2>1, <2>2 DEF Recording
  <2> HIDE DEF y
  <2>4. [y EXCEPT !.mode = mode] \in Recording
    BY <1>7, <2>3 DEF Recording
  <2>5. n = [y EXCEPT !.mode = mode]
    BY DEF y
  <2> HIDE DEF n
  <2>6. /\ n.phase = "running" /\ n.bus = <<>> /\ n.writing = 0 /\ n.open = {}
        /\ n.storing = 0 /\ n.drained = y.drained
    BY <2>3, <2>5 DEF Recording
  <2> QED BY <2>1, <2>3, <2>4, <2>5, <2>6
<1> HIDE DEF n
<1>11. PICK e : /\ entry' = {e} /\ e \in Entry
                /\ \/ e.gate = NewGate
                   \/ e.gate = E.gate
                /\ e.session = IF Built THEN s ELSE 0
  <2>1. CASE Built
    <3> DEFINE a == [E EXCEPT !.session = s]
               b == [a EXCEPT !.gate = NewGate]
               c == [b EXCEPT !.builtShape = cam.shape]
               z == [c EXCEPT !.builtMode = mode]
    <3>1. a \in Entry /\ a.session = s
      BY <1>3, <1>10, <2>1 DEF Entry
    <3>2. z = [E EXCEPT !.session = s, !.gate = NewGate, !.builtShape = cam.shape,
                        !.builtMode = mode]
      BY <1>3 DEF Entry
    <3> HIDE DEF a
    <3>3. b \in Entry /\ b.session = s /\ b.gate = NewGate
      BY <3>1, NoneYet DEF Entry
    <3> HIDE DEF b
    <3>4. c \in Entry /\ c.session = s /\ c.gate = NewGate
      BY <1>7, <3>3 DEF Entry
    <3> HIDE DEF c
    <3>5. z \in Entry /\ z.session = s /\ z.gate = NewGate
      BY <1>7, <3>4 DEF Entry
    <3> HIDE DEF z
    <3>6. entry' = {z}
      BY <2>1, <3>2
    <3> QED BY <2>1, <3>5, <3>6
  <2>2. CASE ~ Built /\ entry' = {E}
    BY <1>3, <1>9, <2>2
  <2>3. CASE ~ Built /\ entry' = {[E EXCEPT !.gate = NewGate]}
    <3> DEFINE z == [E EXCEPT !.gate = NewGate]
    <3>1. z \in Entry /\ z.session = 0 /\ z.gate = NewGate
      BY <1>3, <1>9, NoneYet DEF Entry
    <3> HIDE DEF z
    <3>2. entry' = {z}
      BY <2>3 DEF z
    <3> QED BY <2>3, <3>1, <3>2
  <2> QED BY <1>5, <2>1, <2>2, <2>3
<1>12. ~ Built => session' = session
  BY <1>5
<1>13. /\ session' \in [Sessions -> Recording]
       /\ Built => s \in Sessions /\ session[s].phase = "unused" /\ session'[s] = n
                   /\ \A r \in Sessions : r # s => session'[r] = session[r]
  <2>1. CASE Built
    <3>1. session' = [session EXCEPT ![s] = n]
      BY <2>1
    <3>2. s \in Sessions /\ session[s].phase = "unused"
      BY <1>6, <2>1
    <3> QED BY <1>1, <1>10, <2>1, <3>1, <3>2, Changed
  <2>2. CASE ~ Built
    BY <1>1, <1>12, <2>2 DEF Types
  <2> QED BY <2>1, <2>2
<1> HIDE DEF Built
<1>14. Idle \in Locals /\ Idle.at = "idle" /\ ~ Idle.build /\ NewGate.held = {}
  BY NoneYet
<1>15. /\ thread' \in [Threads -> Locals] /\ thread'[t] = Idle
       /\ \A u \in Threads : u # t => thread'[u] = thread[u]
       /\ Main \in Threads /\ \A c \in Callers : c \in Threads /\ c # Main
  BY <1>1, <1>4, <1>14, Moved
<1>16. thread'[Main] = thread[Main]
  BY <1>2, <1>15
<1>17. Pending' = e.gate.held /\ Pending' \subseteq Pending
  <2>1. Pending' = e.gate.held
    BY <1>11 DEF Pending
  <2> QED BY <1>3, <1>11, <1>14, <2>1
<1>18. /\ Flushed' = Flushed /\ Intact' = Intact /\ BeforeShutdown' = BeforeShutdown
       /\ Settled' \subseteq Settled
  BY <1>4, <1>16, <1>17 DEF Flushed, Intact, BeforeShutdown, Settled
<1>19. \A u \in Threads : /\ Halting(u)' = Halting(u) /\ (Halting(u) => u # t)
                          /\ (u # t => thread'[u] = thread[u])
  BY <1>4, <1>14, <1>15 DEF Halting
<1>20. Types'
  <2>1. applying' \in Threads \cup {Nobody} /\ mutex' \in Threads \cup {Nobody}
    BY <1>4
  <2>2. entry' \subseteq Entry /\ \A x, y \in entry' : x = y
    BY <1>11
  <2> QED BY <1>1, <1>4, <1>13, <1>15, <2>1, <2>2 DEF Types
<1>21. Turns'
  <2>1. \A u \in Callers : thread'[u].at \notin {"joinWorker", "flush", "stopped"}
    BY <1>1, <1>14, <1>15 DEF Turns
  <2>2. \A u \in Threads : u # t => ~ thread[u].build
    BY <1>1, <1>2 DEF Turns
  <2>3. \A u \in Threads : /\ thread'[u].at = "build" => thread'[u].build
                           /\ thread'[u].build => applying' = u
    BY <1>1, <1>14, <1>15, <2>2 DEF Turns
  <2>4. Intact' => \A u \in Threads : ~ Halting(u)'
    BY <1>1, <1>2, <1>18, <1>19 DEF Turns
  <2> QED BY <1>1, <1>4, <1>16, <1>18, <2>1, <2>3, <2>4 DEF Turns
<1>22. Owners'
  <2>1. CASE Built
    <3>1. \A r \in Sessions : r # s => Alive(r)' = Alive(r)
      BY <1>13, <2>1 DEF Alive
    <3>0. s \in Sessions /\ s # 0
      BY <1>10, <2>1 DEF Sessions
    <3>2. session'[s].phase = "running" /\ s \in Sessions /\ s # 0 /\ e.session = s
      BY <1>10, <1>11, <1>13, <2>1, <3>0
    <3>3. ASSUME NEW u \in Threads, Halting(u)'
          PROVE  /\ thread'[u].victim # 0
                 /\ \A x \in entry' : x.session # thread'[u].victim
                 /\ \A v \in Threads : Halting(v)' /\ thread'[v].victim = thread'[u].victim
                                         => v = u
                 /\ LET phase == session'[thread'[u].victim].phase
                    IN  CASE thread'[u].at = "stopping" -> phase = "running"
                          [] thread'[u].at = "draining" -> phase = "draining"
                          [] OTHER -> phase \in {"joining", "leaving"}
      <4>1. Halting(u) /\ thread'[u] = thread[u]
        BY <1>19, <3>3
      <4>2. /\ thread[u].victim # 0 /\ thread[u].victim \in Sessions
            /\ \A v \in Threads : Halting(v) /\ thread[v].victim = thread[u].victim => v = u
            /\ LET phase == session[thread[u].victim].phase
               IN  CASE thread[u].at = "stopping" -> phase = "running"
                     [] thread[u].at = "draining" -> phase = "draining"
                     [] OTHER -> phase \in {"joining", "leaving"}
        BY <1>1, <4>1 DEF Owners, Types, Locals
      <4>3. session[thread[u].victim].phase # "unused"
        BY <4>2
      <4>4. thread[u].victim # s /\ session'[thread[u].victim] = session[thread[u].victim]
        BY <1>13, <2>1, <4>2, <4>3
      <4>5. \A v \in Threads : Halting(v)' /\ thread'[v].victim = thread'[u].victim => v = u
        BY <1>19, <4>1, <4>2
      <4> QED BY <1>11, <3>2, <4>1, <4>2, <4>4, <4>5
    <3>4. \A r \in Sessions : Alive(r)' =>
            \/ \E x \in entry' : x.session = r
            \/ \E u \in Threads : Halting(u)' /\ thread'[u].victim = r
      <4> SUFFICES ASSUME NEW r \in Sessions, Alive(r)', r # s
                   PROVE  \E u \in Threads : Halting(u)' /\ thread'[u].victim = r
        BY <1>11, <3>2
      <4>1. PICK u \in Threads : Halting(u) /\ thread[u].victim = r
        BY <1>1, <1>8, <3>1 DEF Owners, Sessions
      <4> QED BY <1>19, <4>1
    <3>5. \A r \in Sessions : ~ Alive(r)' =>
            /\ session'[r].writing = 0 /\ session'[r].open = {} /\ session'[r].bus = <<>>
            /\ session'[r].storing = 0
            /\ session'[r].phase = "unused" => ~ session'[r].drained
      BY <1>1, <1>13, <2>1, <3>1, <3>2 DEF Owners, Alive
    <3>6. \A x \in entry' : x.session # 0 => session'[x.session].phase = "running"
      BY <1>11, <3>2
    <3> QED BY <3>3, <3>4, <3>5, <3>6 DEF Owners
  <2>2. CASE ~ Built
    <3>1. \A x \in entry' : x.session = 0
      BY <1>11, <2>2
    <3>2. \A u \in Threads : Halting(u)' = Halting(u) /\ (Halting(u) => thread'[u] = thread[u])
      BY <1>19
    <3> QED BY <1>1, <1>8, <1>12, <2>2, <3>1, <3>2, OwnersCalm
  <2> QED BY <2>1, <2>2
<1>23. \A r \in Sessions : /\ Under(session'[r]) \subseteq Under(session[r])
                           /\ session'[r].storing \in {0, session[r].storing}
                           /\ Once(session[r]) => Once(session'[r])
  <2>1. CASE Built
    <3>1. Under(n) = {} /\ n.storing = 0 /\ Once(n)
      BY <1>10, <2>1 DEF Under, Once
    <3> QED BY <1>13, <2>1, <3>1
  <2>2. CASE ~ Built
    BY <1>12, <2>2
  <2> QED BY <2>1, <2>2
<1>24. OnTheWay'
  <2>1. ASSUME NEW r \in Sessions, NEW g \in Under(session'[r])
        PROVE  /\ madeBy'[g] = r /\ g \in disk' /\ rows'[g] # "complete" /\ g \notin Settled'
    BY <1>1, <1>4, <1>18, <1>23 DEF OnTheWay
  <2>2. ASSUME NEW r \in Sessions, session'[r].storing # 0
        PROVE  LET g == session'[r].storing
               IN  madeBy'[g] = r /\ g \in disk' /\ rows'[g] = "complete" /\ g \notin Settled'
    <3>1. session'[r].storing = session[r].storing
      BY <1>23, <2>2
    <3> QED BY <1>1, <1>4, <1>18, <2>2, <3>1 DEF OnTheWay
  <2>3. \A r \in Sessions : Once(session'[r])
    BY <1>1, <1>23 DEF OnTheWay
  <2> QED BY <2>1, <2>2, <2>3 DEF OnTheWay
<1>25. Arrived'
  <2>1. Pending' \cap (Flushed' \cup kept' \cup dropped' \cup worker'.batch) = {}
    BY <1>1, <1>4, <1>17, <1>18 DEF Arrived
  <2>2. \A f \in Pending' : rows'[f] = "complete" /\ f \in disk'
    BY <1>1, <1>4, <1>17 DEF Arrived
  <2>3. \A f \in Files : madeBy'[f] = 0 => f \notin Settled' \cup asked' /\ rows'[f] = "none"
    BY <1>1, <1>4, <1>18 DEF Arrived
  <2> QED BY <2>1, <2>2, <2>3 DEF Arrived
<1>26. Promised'
  <2>1. ASSUME Intact', NEW f \in asked'
        PROVE  \/ f \in e.gate.saves
               \/ f \notin e.gate.held /\ \A r \in Sessions :
                                 f \notin Under(session'[r]) \cup {session'[r].storing}
    <3>1. Intact /\ f \in asked /\ f \in Files /\ f # 0 /\ E \in entry
      BY <1>1, <1>3, <1>4, <1>18, <2>1 DEF Promised, Types, Files
    <3>2. \A u \in Threads : ~ Halting(u)
      BY <1>1, <1>2, <1>19, <3>1 DEF Turns
    <3>3. \A r \in Sessions : ~ Alive(r)
      BY <1>1, <1>8, <3>2 DEF Owners, Sessions
    <3>4. \A r \in Sessions : Under(session[r]) = {} /\ session[r].storing = 0
      BY <1>1, <3>3 DEF Owners, Under
    <3>5. \A r \in Sessions : f \notin Under(session'[r]) \cup {session'[r].storing}
      BY <1>23, <3>1, <3>4
    <3>6. f \in E.gate.saves \/ f \notin E.gate.held
      BY <1>1, <3>1 DEF Promised
    <3> QED BY <1>11, <1>14, <3>5, <3>6
  <2> QED BY <1>1, <1>4, <1>11, <1>16, <1>18, <2>1 DEF Promised
<1>27. Closes'
  <2>1. \A r \in Sessions \ abandoned' : ClosedLater(session'[r])
    <3>1. CASE Built
      <4>1. ClosedLater(n)
        BY <1>10, <3>1 DEF ClosedLater
      <4> QED BY <1>1, <1>4, <1>13, <3>1, <4>1 DEF Closes
    <3>2. CASE ~ Built
      BY <1>1, <1>4, <1>12, <3>2 DEF Closes
    <3> QED BY <3>1, <3>2
  <2>2. \A r \in Sessions, f \in Files : f \in session[r].open => f \in session'[r].open
    <3>1. CASE Built
      <4>1. session[s].open = {}
        BY <1>1, <1>13, <3>1 DEF Owners, Alive
      <4> QED BY <1>13, <3>1, <4>1
    <3>2. CASE ~ Built
      BY <1>12, <3>2
    <3> QED BY <3>1, <3>2
  <2>3. \A f \in Files : rows[f] = "recording" => madeBy[f] \in Sessions
    BY <1>1 DEF Types, Arrived
  <2> QED BY <1>1, <1>4, <2>1, <2>2, <2>3 DEF Closes
<1> QED BY <1>20, <1>21, <1>22, <1>24, <1>25, <1>26, <1>27 DEF IInv

LEMMA CallRemoveStep == ASSUME IInv, NEW t \in Callers, CallRemove(t) PROVE IInv'
<1>1. Types /\ Turns /\ Owners /\ OnTheWay /\ Arrived /\ Promised /\ Closes
  BY DEF IInv
<1>2. /\ thread[t].at = "idle" /\ Present /\ entry' = {} /\ removed' = TRUE
      /\ UNCHANGED <<applying, mutex, worker, running, session, madeBy, rows, disk,
                     abandoned, asked, kept, dropped>>
  BY DEF CallRemove, sessionVars
<1> DEFINE E == TheEntry
           stop == [Idle EXCEPT !.at = "stopping", !.victim = E.session]
           l == IF E.session = 0 THEN Idle ELSE stop
<1>3. E \in Entry /\ E \in entry /\ entry = {E}
  BY <1>1, <1>2, OneEntry
<1>4. thread' = [thread EXCEPT ![t] = l]
  BY DEF CallRemove
<1>5. E.session \in Sessions \cup {0}
  BY <1>3 DEF Entry
<1> HIDE DEF E
<1>6. stop \in Locals /\ stop.at = "stopping" /\ stop.victim = E.session /\ ~ stop.build
  BY <1>5, NoneYet DEF Locals
<1> HIDE DEF stop
<1>7. /\ l \in Locals /\ ~ l.build /\ l.at \in {"idle", "stopping"}
      /\ E.session = 0 => l.at = "idle"
      /\ E.session # 0 => l.at = "stopping" /\ l.victim = E.session
  BY <1>6, NoneYet
<1> HIDE DEF l
<1>8. t \in Threads /\ ~ Halting(t)
  BY <1>2 DEF Threads, Halting
<1>9. /\ thread' \in [Threads -> Locals] /\ thread'[t] = l
      /\ \A u \in Threads : u # t => thread'[u] = thread[u]
      /\ Main \in Threads /\ \A c \in Callers : c \in Threads /\ c # Main
  BY <1>1, <1>4, <1>7, <1>8, Moved
<1>10. thread'[Main] = thread[Main]
  BY <1>9
<1>11. Pending' = {} /\ Flushed' = Flushed /\ BeforeShutdown' = BeforeShutdown /\ ~ Intact'
       /\ Settled' \subseteq Settled
  BY <1>2, <1>10 DEF Pending, Flushed, BeforeShutdown, Intact, Settled
<1>12. Types'
  BY <1>1, <1>2, <1>9 DEF Types
<1>13. Turns'
  <2>1. \A u \in Callers : thread'[u].at \notin {"joinWorker", "flush", "stopped"}
    BY <1>1, <1>7, <1>9 DEF Turns
  <2>2. \A u \in Threads : /\ thread'[u].at = "build" => thread'[u].build
                           /\ thread'[u].build => applying' = u
    BY <1>1, <1>2, <1>7, <1>9 DEF Turns
  <2> QED BY <1>1, <1>2, <1>10, <1>11, <2>1, <2>2 DEF Turns
<1>14. Owners'
  <2>1. CASE E.session = 0
    <3>1. \A u \in Threads : Halting(u)' = Halting(u) /\ (Halting(u) => thread'[u] = thread[u])
      BY <1>7, <1>8, <1>9, <2>1 DEF Halting
    <3>2. \A d \in entry : d.session = 0
      BY <1>3, <2>1
    <3> QED BY <1>1, <1>2, <3>1, <3>2, OwnersCalm
  <2>2. CASE E.session # 0
    BY <1>1, <1>2, <1>3, <1>4, <1>7, <1>8, <2>2, OwnersTake
  <2> QED BY <2>1, <2>2
<1>15. OnTheWay'
  BY <1>1, <1>2, <1>11 DEF OnTheWay
<1>16. Arrived'
  BY <1>1, <1>2, <1>11 DEF Arrived
<1>17. Promised'
  BY <1>2, <1>11 DEF Promised
<1>18. Closes'
  BY <1>1, <1>2 DEF Closes
<1> QED BY <1>12, <1>13, <1>14, <1>15, <1>16, <1>17, <1>18 DEF IInv

(* The thread that stops a session takes it from phase to phase.           *)
LEMMA OwnersHalt ==
  ASSUME Types, Owners, NEW t \in Threads, Halting(t), NEW l \in Locals,
         NEW s \in Sessions, s = thread[t].victim, NEW n \in Recording,
         thread' = [thread EXCEPT ![t] = l], session' = [session EXCEPT ![s] = n],
         l.victim = s, UNCHANGED entry,
         \/ l.at = "draining" /\ n.phase = "draining"
         \/ l.at = "joining" /\ n.phase = "joining"
  PROVE  Owners'
<1>1. /\ thread' \in [Threads -> Locals] /\ thread'[t] = l
      /\ \A u \in Threads : u # t => thread'[u] = thread[u]
  BY Moved
<1>2. session'[s] = n /\ \A r \in Sessions : r # s => session'[r] = session[r]
  BY Changed
<1>3. \A u \in Threads : /\ Halting(u)' <=> Halting(u)
                         /\ thread'[u].victim = thread[u].victim
                         /\ thread[u].victim \in Sessions \cup {0}
  BY <1>1 DEF Halting, Types, Locals
<1>4. Alive(s) /\ Alive(s)' /\ \A r \in Sessions : (Alive(r)' <=> Alive(r)) /\ r # 0
  <2>1. Alive(s)
    BY DEF Owners, Alive, Halting
  <2>2. Alive(s)'
    BY <1>2 DEF Alive
  <2> QED BY <1>2, <2>1, <2>2 DEF Alive, Sessions
<1>5. ASSUME NEW u \in Threads, Halting(u)'
      PROVE  /\ thread'[u].victim # 0
             /\ \A e \in entry' : e.session # thread'[u].victim
             /\ \A v \in Threads : Halting(v)' /\ thread'[v].victim = thread'[u].victim => v = u
             /\ LET phase == session'[thread'[u].victim].phase
                IN  CASE thread'[u].at = "stopping" -> phase = "running"
                      [] thread'[u].at = "draining" -> phase = "draining"
                      [] OTHER -> phase \in {"joining", "leaving"}
  <2>1. /\ thread'[u].victim # 0
        /\ \A e \in entry' : e.session # thread'[u].victim
        /\ \A v \in Threads : Halting(v)' /\ thread'[v].victim = thread'[u].victim => v = u
    BY <1>3, <1>5 DEF Owners
  <2>2. CASE u = t
    BY <1>1, <1>2, <2>1, <2>2
  <2>3. CASE u # t
    <3>1. thread'[u] = thread[u] /\ thread[u].victim # s /\ thread[u].victim \in Sessions
      BY <1>1, <1>3, <1>5, <2>1, <2>3 DEF Owners
    <3>2. session'[thread'[u].victim] = session[thread[u].victim]
      BY <1>2, <3>1
    <3>3. LET phase == session[thread[u].victim].phase
          IN  CASE thread[u].at = "stopping" -> phase = "running"
                [] thread[u].at = "draining" -> phase = "draining"
                [] OTHER -> phase \in {"joining", "leaving"}
      BY <1>3, <1>5 DEF Owners
    <3> QED BY <2>1, <3>1, <3>2, <3>3
  <2> QED BY <2>2, <2>3
<1>6. \A e \in entry' : e.session # 0 => session'[e.session].phase = "running"
  <2>1. \A e \in entry : e.session # s /\ e.session \in Sessions \cup {0}
    BY DEF Owners, Types, Entry
  <2> QED BY <1>2, <2>1 DEF Owners
<1>7. \A r \in Sessions : Alive(r)' =>
        \/ \E e \in entry' : e.session = r
        \/ \E u \in Threads : Halting(u)' /\ thread'[u].victim = r
  BY <1>3, <1>4 DEF Owners
<1>8. \A r \in Sessions : ~ Alive(r)' =>
        /\ session'[r].writing = 0 /\ session'[r].open = {} /\ session'[r].bus = <<>>
        /\ session'[r].storing = 0
        /\ session'[r].phase = "unused" => ~ session'[r].drained
  BY <1>2, <1>4 DEF Owners
<1> QED BY <1>5, <1>6, <1>7, <1>8 DEF Owners

LEMMA HaltKeeps ==
  ASSUME IInv, NEW t \in Threads, Halting(t), NEW l \in Locals,
         NEW s \in Sessions, s = thread[t].victim, NEW n \in Recording,
         thread' = [thread EXCEPT ![t] = l], session' = [session EXCEPT ![s] = n],
         l.victim = s, l.build = thread[t].build, l.gate = thread[t].gate,
         \/ l.at = "draining" /\ n.phase = "draining"
         \/ l.at = "joining" /\ n.phase = "joining",
         n.bus = session[s].bus, n.writing = session[s].writing, n.open = session[s].open,
         n.storing = session[s].storing,
         abandoned \subseteq abandoned', abandoned' \subseteq abandoned \cup {s},
         s \notin abandoned' => ClosedLater(n),
         UNCHANGED <<entry, applying, mutex, worker, running, madeBy, rows, disk, asked,
                     kept, dropped, removed>>
  PROVE  IInv'
<1>1. Types /\ Turns /\ Owners /\ OnTheWay /\ Arrived /\ Promised /\ Closes
  BY DEF IInv
<1>2. /\ thread' \in [Threads -> Locals] /\ thread'[t] = l
      /\ \A u \in Threads : u # t => thread'[u] = thread[u]
      /\ Main \in Threads /\ \A c \in Callers : c \in Threads /\ c # Main
  BY <1>1, Moved
<1>3. /\ session' \in [Sessions -> Recording] /\ session'[s] = n
      /\ \A r \in Sessions : r # s => session'[r] = session[r]
  BY <1>1, Changed
<1>4. thread'[Main].gate = thread[Main].gate
  BY <1>2
<1>5. BeforeShutdown' <=> BeforeShutdown
  BY <1>2 DEF BeforeShutdown, Halting
<1>6. /\ (Intact' <=> Intact) /\ Pending' = Pending /\ Flushed' = Flushed
      /\ Settled' = Settled
  BY <1>4, <1>5 DEF Intact, Pending, Flushed, Settled
<1>7. Types'
  <2>1. abandoned' \subseteq Sessions
    BY <1>1 DEF Types
  <2> QED BY <1>1, <1>2, <1>3, <2>1 DEF Types
<1>8. Turns'
  <2>1. running' => thread'[Main].at = "idle"
    BY <1>1, <1>2 DEF Turns, Halting
  <2>2. thread'[Main].at \notin {"enter", "build"} /\ ~ thread'[Main].build
    BY <1>1, <1>2 DEF Turns
  <2>3. \A u \in Callers : thread'[u].at \notin {"joinWorker", "flush", "stopped"}
    BY <1>1, <1>2 DEF Turns
  <2>4. \A u \in Threads : /\ thread'[u].at = "build" => thread'[u].build
                           /\ thread'[u].build => applying' = u
    BY <1>1, <1>2 DEF Turns
  <2>5. Intact' => \A u \in Threads : Halting(u)' => applying' = u
    BY <1>1, <1>2, <1>6 DEF Turns, Halting
  <2> QED BY <1>1, <1>4, <1>5, <2>1, <2>2, <2>3, <2>4, <2>5 DEF Turns
<1>9. Owners'
  BY <1>1, OwnersHalt
<1>10. \A r \in Sessions : /\ Under(session'[r]) = Under(session[r])
                           /\ session'[r].storing = session[r].storing
                           /\ session'[r].open = session[r].open
                           /\ Once(session'[r]) <=> Once(session[r])
  <2>1. Under(n) = Under(session[s]) /\ (Once(n) <=> Once(session[s]))
    BY DEF Under, Once
  <2> QED BY <1>3, <2>1
<1>11. OnTheWay'
  BY <1>1, <1>6, <1>10 DEF OnTheWay
<1>12. Arrived'
  BY <1>1, <1>6 DEF Arrived
<1>13. Promised'
  BY <1>1, <1>4, <1>6, <1>10 DEF Promised
<1>14. Closes'
  <2>1. \A r \in Sessions \ abandoned' : ClosedLater(session'[r])
    BY <1>1, <1>3 DEF Closes
  <2>2. ASSUME NEW f \in Files, rows'[f] = "recording"
        PROVE  madeBy'[f] \in abandoned' \/ f \in session'[madeBy'[f]].open
    <3>1. madeBy[f] \in abandoned \/ f \in session[madeBy[f]].open
      BY <1>1, <2>2 DEF Closes
    <3>2. madeBy[f] \in Sessions
      <4>1. madeBy[f] \in Sessions \cup {0} /\ rows[f] # "none"
        BY <1>1, <2>2 DEF Types
      <4>2. madeBy[f] # 0
        BY <1>1, <4>1 DEF Arrived
      <4> QED BY <4>1, <4>2
    <3> QED BY <1>10, <3>1, <3>2
  <2> QED BY <2>1, <2>2 DEF Closes
<1> QED BY <1>7, <1>8, <1>9, <1>11, <1>12, <1>13, <1>14 DEF IInv

LEMMA BeginStopStep == ASSUME IInv, NEW t \in Threads, BeginStop(t) PROVE IInv'
<1>1. Types /\ Turns /\ Owners /\ OnTheWay /\ Arrived /\ Promised /\ Closes
  BY DEF IInv
<1> DEFINE s == thread[t].victim
           l == [thread[t] EXCEPT !.at = "draining"]
           n == [session[s] EXCEPT !.phase = "draining"]
<1>2. /\ Halting(t) /\ thread[t] \in Locals
      /\ UNCHANGED <<entry, applying, mutex, worker, running, madeBy, rows, disk, abandoned,
                     asked, kept, dropped, removed>>
  BY <1>1 DEF BeginStop, Halting, historyVars, Types
<1>3. s \in Sessions
  BY <1>1, <1>2 DEF Owners, Locals
<1>4. thread' = [thread EXCEPT ![t] = l] /\ session' = [session EXCEPT ![s] = n]
  BY <1>1, <1>3 DEF BeginStop, Types, Locals, Recording
<1>5. /\ l \in Locals /\ l.at = "draining" /\ l.victim = thread[t].victim
      /\ l.build = thread[t].build /\ l.gate = thread[t].gate
  BY <1>2 DEF Locals
<1> HIDE DEF l
<1>6. session[s] \in Recording
  BY <1>1, <1>3 DEF Types
<1>7. /\ n \in Recording /\ n.phase = "draining" /\ n.bus = session[s].bus
      /\ n.writing = session[s].writing /\ n.open = session[s].open
      /\ n.storing = session[s].storing /\ n.drained = session[s].drained
  BY <1>6 DEF Recording
<1> HIDE DEF n, s
<1>8. s \notin abandoned' => ClosedLater(n)
  BY <1>1, <1>2, <1>3, <1>7, ClosesAlike DEF Closes
<1>9. abandoned \subseteq abandoned' /\ abandoned' \subseteq abandoned \cup {s}
  BY <1>2
<1> QED BY <1>2, <1>3, <1>4, <1>5, <1>7, <1>8, <1>9, HaltKeeps DEF s

LEMMA StopWaitingStep == ASSUME IInv, NEW t \in Threads, StopWaiting(t) PROVE IInv'
<1>1. Types /\ Turns /\ Owners /\ OnTheWay /\ Arrived /\ Promised /\ Closes
  BY DEF IInv
<1> DEFINE s == thread[t].victim
           l == [thread[t] EXCEPT !.at = "joining"]
           n == [session[s] EXCEPT !.phase = "joining"]
<1>2. /\ Halting(t) /\ thread[t] \in Locals
      /\ UNCHANGED <<entry, applying, mutex, worker, running, madeBy, rows, disk, asked,
                     kept, dropped, removed>>
      /\ \/ session[s].drained /\ abandoned' = abandoned
         \/ abandoned' = abandoned \cup {s}
  BY <1>1 DEF StopWaiting, Drained, Halting, historyVars, Types
<1>3. s \in Sessions
  BY <1>1, <1>2 DEF Owners, Locals
<1>4. thread' = [thread EXCEPT ![t] = l] /\ session' = [session EXCEPT ![s] = n]
  BY <1>1, <1>3 DEF StopWaiting, Types, Locals, Recording
<1>5. /\ l \in Locals /\ l.at = "joining" /\ l.victim = thread[t].victim
      /\ l.build = thread[t].build /\ l.gate = thread[t].gate
  BY <1>2 DEF Locals
<1> HIDE DEF l
<1>6. session[s] \in Recording
  BY <1>1, <1>3 DEF Types
<1>7. /\ n \in Recording /\ n.phase = "joining" /\ n.bus = session[s].bus
      /\ n.writing = session[s].writing /\ n.open = session[s].open
      /\ n.storing = session[s].storing /\ n.drained = session[s].drained
  BY <1>6 DEF Recording
<1> HIDE DEF n, s
<1>8. s \notin abandoned' => ClosedLater(n)
  BY <1>1, <1>2, <1>3, <1>7, ClosesAlike DEF Closes
<1>9. abandoned \subseteq abandoned' /\ abandoned' \subseteq abandoned \cup {s}
  BY <1>2
<1> QED BY <1>2, <1>3, <1>4, <1>5, <1>7, <1>8, <1>9, HaltKeeps DEF s

(* The session is gone, and nothing of it was left to close.               *)
LEMMA JoinStep == ASSUME IInv, NEW t \in Threads, Join(t) PROVE IInv'
<1>1. Types /\ Turns /\ Owners /\ OnTheWay /\ Arrived /\ Promised /\ Closes
  BY DEF IInv
<1> DEFINE s == thread[t].victim
           at == IF thread[t].build THEN "build" ELSE IF t = Main THEN "flush" ELSE "idle"
           l == IF at = "idle" THEN Idle ELSE [thread[t] EXCEPT !.at = at]
           n == [session[s] EXCEPT !.phase = "gone", !.writing = 0, !.open = {}, !.bus = <<>>]
<1>2. /\ Halting(t) /\ thread[t] \in Locals /\ thread[t].at = "joining"
      /\ session[s].storing = 0
      /\ thread' = [thread EXCEPT ![t] = l] /\ session' = [session EXCEPT ![s] = n]
      /\ applying' = IF at = "idle" /\ applying = t THEN Nobody ELSE applying
      /\ mutex' = IF at = "idle" /\ mutex = t THEN Nobody ELSE mutex
      /\ UNCHANGED <<entry, worker, running, madeBy, rows, disk, abandoned, asked, kept,
                     dropped, removed>>
  BY <1>1 DEF Join, Halting, historyVars, Types
<1>3. /\ s \in Sessions /\ s # 0 /\ session[s].phase \in {"joining", "leaving"} /\ Alive(s)
      /\ \A e \in entry : e.session # s
      /\ \A u \in Threads : Halting(u) /\ thread[u].victim = s => u = t
  BY <1>1, <1>2 DEF Owners, Locals, Alive
<1>4. /\ l \in Locals /\ l.at = at /\ (l.build => at = "build")
      /\ at = "build" => l.build
      /\ at # "idle" => l.gate = thread[t].gate
  <2>1. CASE at = "idle"
    BY <2>1, NoneYet
  <2>2. CASE at # "idle"
    <3>1. l = [thread[t] EXCEPT !.at = at] /\ at \in {"build", "flush"}
      BY <2>2
    <3>2. l.build = thread[t].build /\ l.at = at /\ l.gate = thread[t].gate /\ l \in Locals
      BY <1>2, <3>1 DEF Locals
    <3> QED BY <3>2
  <2> QED BY <2>1, <2>2
<1>5. /\ at \in {"build", "flush", "idle"}
      /\ at = "build" <=> thread[t].build
      /\ t = Main => at = "flush"
      /\ t # Main => at # "flush"
  BY <1>1 DEF Turns
<1> HIDE DEF l
<1>6. session[s] \in Recording
  BY <1>1, <1>3 DEF Types
<1>7. /\ n \in Recording /\ n.phase = "gone" /\ n.bus = <<>> /\ n.writing = 0
      /\ n.open = {} /\ n.storing = 0
  <2> DEFINE a == [session[s] EXCEPT !.phase = "gone"]
             b == [a EXCEPT !.writing = 0]
             c == [b EXCEPT !.open = {}]
             d == [c EXCEPT !.bus = <<>>]
  <2>1. d = n
    OBVIOUS
  <2>2. a \in Recording /\ a.phase = "gone" /\ a.storing = 0
    BY <1>2, <1>6 DEF Recording
  <2> HIDE DEF a
  <2>3. b \in Recording /\ b.phase = "gone" /\ b.storing = 0 /\ b.writing = 0
    BY <2>2 DEF Recording
  <2> HIDE DEF b
  <2>4. c \in Recording /\ c.phase = "gone" /\ c.storing = 0 /\ c.writing = 0 /\ c.open = {}
    BY <2>3 DEF Recording
  <2> HIDE DEF c
  <2>5. <<>> \in Seq(Message)
    OBVIOUS
  <2>6. d \in Recording /\ d.phase = "gone" /\ d.storing = 0 /\ d.writing = 0 /\ d.open = {}
        /\ d.bus = <<>>
    BY <2>4, <2>5 DEF Recording
  <2> HIDE DEF d, n
  <2> QED BY <2>1, <2>6
<1> HIDE DEF n, s, at
<1>8. /\ thread' \in [Threads -> Locals] /\ thread'[t] = l
      /\ \A u \in Threads : u # t => thread'[u] = thread[u]
      /\ Main \in Threads /\ \A c \in Callers : c \in Threads /\ c # Main
  BY <1>1, <1>2, <1>4, Moved
<1>9. /\ session' \in [Sessions -> Recording] /\ session'[s] = n
      /\ \A r \in Sessions : r # s => session'[r] = session[r]
  BY <1>1, <1>2, <1>3, <1>7, Changed
<1>10. thread'[Main].gate = thread[Main].gate
  BY <1>4, <1>5, <1>8
<1>11. BeforeShutdown' <=> BeforeShutdown
  BY <1>2, <1>4, <1>5, <1>8 DEF BeforeShutdown
<1>12. /\ (Intact' <=> Intact) /\ Pending' = Pending /\ Flushed' = Flushed
       /\ Settled' = Settled
  BY <1>2, <1>10, <1>11 DEF Intact, Pending, Flushed, Settled
<1>13. ~ Halting(t)' /\ \A u \in Threads : u # t => (Halting(u)' <=> Halting(u))
  BY <1>4, <1>5, <1>8 DEF Halting
<1>14. /\ Nobody \notin Threads /\ applying' \in {applying, Nobody}
       /\ \A u \in Threads : u # t /\ applying = u => applying' = u
       /\ at = "build" => applying' = applying
  BY <1>2, RecorderAssumption DEF Threads
<1>15. Types'
  <2>1. applying' \in Threads \cup {Nobody} /\ mutex' \in Threads \cup {Nobody}
    BY <1>1, <1>2 DEF Types
  <2> QED BY <1>1, <1>2, <1>8, <1>9, <2>1 DEF Types
<1>16. Turns'
  <2>1. running' => thread'[Main].at = "idle"
    BY <1>1, <1>2, <1>8 DEF Turns
  <2>2. thread'[Main].at \notin {"enter", "build"} /\ ~ thread'[Main].build
    BY <1>1, <1>4, <1>5, <1>8 DEF Turns
  <2>3. \A u \in Callers : thread'[u].at \notin {"joinWorker", "flush", "stopped"}
    BY <1>1, <1>4, <1>5, <1>8 DEF Turns
  <2>4. \A u \in Threads : /\ thread'[u].at = "build" => thread'[u].build
                           /\ thread'[u].build => applying' = u
    <3>1. ASSUME NEW u \in Threads, u # t
          PROVE  /\ thread'[u].at = "build" => thread'[u].build
                 /\ thread'[u].build => applying' = u
      BY <1>1, <1>8, <1>14, <3>1 DEF Turns
    <3>2. /\ thread'[t].at = "build" => thread'[t].build
          /\ thread'[t].build => applying' = t
      BY <1>1, <1>4, <1>5, <1>8, <1>14 DEF Turns
    <3> QED BY <3>1, <3>2
  <2>5. Intact' => \A u \in Threads : Halting(u)' => applying' = u
    BY <1>1, <1>12, <1>13, <1>14 DEF Turns
  <2>6. applying' # Nobody => \A e \in entry' : e.session = 0
    BY <1>1, <1>2, <1>14 DEF Turns
  <2> QED BY <1>1, <1>2, <1>10, <1>11, <2>1, <2>2, <2>3, <2>4, <2>5, <2>6 DEF Turns
<1>17. Owners'
  <2>1. \A r \in Sessions : Alive(r)' <=> r # s /\ Alive(r)
    BY <1>7, <1>9 DEF Alive
  <2>2. ASSUME NEW u \in Threads, Halting(u)'
        PROVE  /\ thread'[u].victim # 0
               /\ \A e \in entry' : e.session # thread'[u].victim
               /\ \A v \in Threads : Halting(v)' /\ thread'[v].victim = thread'[u].victim
                                       => v = u
               /\ LET phase == session'[thread'[u].victim].phase
                  IN  CASE thread'[u].at = "stopping" -> phase = "running"
                        [] thread'[u].at = "draining" -> phase = "draining"
                        [] OTHER -> phase \in {"joining", "leaving"}
    <3>1. u # t /\ thread'[u] = thread[u] /\ Halting(u)
      BY <1>8, <1>13, <2>2
    <3>2. /\ thread[u].victim # 0 /\ thread[u].victim \in Sessions
          /\ \A e \in entry : e.session # thread[u].victim
          /\ \A v \in Threads : Halting(v) /\ thread[v].victim = thread[u].victim => v = u
          /\ LET phase == session[thread[u].victim].phase
             IN  CASE thread[u].at = "stopping" -> phase = "running"
                   [] thread[u].at = "draining" -> phase = "draining"
                   [] OTHER -> phase \in {"joining", "leaving"}
      BY <1>1, <3>1 DEF Owners, Types, Locals
    <3>3. thread[u].victim # s
      BY <1>3, <3>1
    <3>4. session'[thread[u].victim] = session[thread[u].victim]
      BY <1>9, <3>2, <3>3
    <3>5. \A v \in Threads : Halting(v)' /\ thread'[v].victim = thread[u].victim => v = u
      BY <1>8, <1>13, <3>2
    <3> QED BY <1>2, <3>1, <3>2, <3>4, <3>5
  <2>3. \A e \in entry' : e.session # 0 => session'[e.session].phase = "running"
    <3>1. \A e \in entry : e.session \in Sessions \cup {0}
      BY <1>1 DEF Types, Entry
    <3> QED BY <1>1, <1>2, <1>3, <1>9, <3>1 DEF Owners
  <2>4. ASSUME NEW r \in Sessions, Alive(r)'
        PROVE  \/ \E e \in entry' : e.session = r
               \/ \E u \in Threads : Halting(u)' /\ thread'[u].victim = r
    <3>1. r # s /\ Alive(r)
      BY <2>1, <2>4
    <3>2. CASE \E e \in entry : e.session = r
      BY <1>2, <3>2
    <3>3. CASE \E u \in Threads : Halting(u) /\ thread[u].victim = r
      <4>1. PICK u \in Threads : Halting(u) /\ thread[u].victim = r
        BY <3>3
      <4>2. u # t
        BY <3>1, <4>1 DEF s
      <4> QED BY <1>8, <1>13, <4>1, <4>2
    <3> QED BY <1>1, <3>1, <3>2, <3>3 DEF Owners
  <2>5. \A r \in Sessions : ~ Alive(r)' =>
          /\ session'[r].writing = 0 /\ session'[r].open = {} /\ session'[r].bus = <<>>
          /\ session'[r].storing = 0
          /\ session'[r].phase = "unused" => ~ session'[r].drained
    BY <1>1, <1>7, <1>9, <2>1 DEF Owners
  <2> QED BY <2>2, <2>3, <2>4, <2>5 DEF Owners
<1>18. /\ Under(n) = {} /\ Once(n) /\ ClosedLater(n)
  <2>1. DOMAIN n.bus = {}
    BY <1>7
  <2>2. Under(n) = {}
    BY <1>7, <2>1 DEF Under
  <2>3. Once(n)
    BY <1>7, <2>1 DEF Once
  <2>4. ClosedLater(n)
    BY <1>7, <2>1 DEF ClosedLater
  <2> QED BY <2>2, <2>3, <2>4
<1>19. \A r \in Sessions : /\ Under(session'[r]) \subseteq Under(session[r])
                           /\ session'[r].storing = session[r].storing
                           /\ Once(session'[r])
  BY <1>1, <1>2, <1>7, <1>9, <1>18 DEF OnTheWay
<1>20. OnTheWay'
  BY <1>1, <1>2, <1>12, <1>19 DEF OnTheWay
<1>21. Arrived'
  BY <1>1, <1>2, <1>12 DEF Arrived
<1>22. Promised'
  <2>1. Intact' => \A e \in entry' : \A f \in asked' :
          \/ f \in e.gate.saves
          \/ f \notin e.gate.held /\ \A r \in Sessions :
                                       f \notin Under(session'[r]) \cup {session'[r].storing}
    BY <1>1, <1>2, <1>12, <1>19 DEF Promised
  <2> QED BY <1>1, <1>2, <1>10, <1>12, <2>1 DEF Promised
<1>23. Closes'
  <2>1. \A r \in Sessions \ abandoned' : ClosedLater(session'[r])
    BY <1>1, <1>2, <1>9, <1>18 DEF Closes
  <2>2. ASSUME NEW f \in Files, rows'[f] = "recording"
        PROVE  madeBy'[f] \in abandoned' \/ f \in session'[madeBy'[f]].open
    <3>1. madeBy[f] \in abandoned \/ f \in session[madeBy[f]].open
      BY <1>1, <1>2, <2>2 DEF Closes
    <3>2. madeBy[f] \in Sessions
      <4>1. madeBy[f] \in Sessions \cup {0} /\ rows[f] # "none"
        BY <1>1, <1>2, <2>2 DEF Types
      <4>2. madeBy[f] # 0
        BY <1>1, <4>1 DEF Arrived
      <4> QED BY <4>1, <4>2
    <3>3. CASE madeBy[f] = s /\ s \notin abandoned
      <4>1. ClosedLater(session[s]) /\ f \in session[s].open
        BY <1>1, <1>3, <3>1, <3>3 DEF Closes
      <4>2. session[s].bus = <<>> /\ session[s].writing = 0
        BY <1>3, <4>1 DEF ClosedLater
      <4>3. f = 0
        BY <4>1, <4>2 DEF ClosedLater
      <4> QED BY <4>3 DEF Files
    <3> QED BY <1>2, <1>9, <3>1, <3>2, <3>3
  <2> QED BY <2>1, <2>2 DEF Closes
<1> QED BY <1>15, <1>16, <1>17, <1>20, <1>21, <1>22, <1>23 DEF IInv

-----------------------------------------------------------------------------
(* stop(): the entries become the main thread's, then their gate's files   *)
(* are decided.                                                            *)
LEMMA CallStopStep == ASSUME IInv, CallStop PROVE IInv'
<1>1. Types /\ Turns /\ Owners /\ OnTheWay /\ Arrived /\ Promised /\ Closes
  BY DEF IInv
<1> DEFINE l == [thread[Main] EXCEPT !.at = "joinWorker"]
<1>2. /\ thread[Main].at = "idle" /\ running' = FALSE
      /\ UNCHANGED <<entry, applying, mutex, worker, session, madeBy, rows, disk, abandoned,
                     asked, kept, dropped, removed>>
  BY DEF CallStop, sessionVars, historyVars
<1>3. Main \in Threads /\ thread[Main] \in Locals
  BY <1>1 DEF Types, Threads
<1>4. thread' = [thread EXCEPT ![Main] = l]
  BY <1>1, <1>3 DEF CallStop, Types, Locals
<1>5. /\ l \in Locals /\ l.at = "joinWorker" /\ l.build = thread[Main].build
      /\ l.gate = thread[Main].gate
  BY <1>3 DEF Locals
<1> HIDE DEF l
<1>6. /\ thread' \in [Threads -> Locals] /\ thread'[Main] = l
      /\ \A u \in Threads : u # Main => thread'[u] = thread[u]
      /\ \A c \in Callers : c \in Threads /\ c # Main
  BY <1>1, <1>3, <1>4, <1>5, Moved
<1>7. /\ BeforeShutdown /\ BeforeShutdown' /\ (Intact' <=> Intact) /\ Pending' = Pending
      /\ Flushed' = Flushed /\ Settled' = Settled
  BY <1>2, <1>5, <1>6 DEF BeforeShutdown, Intact, Pending, Flushed, Settled
<1>8. \A u \in Threads : /\ Halting(u)' = Halting(u)
                         /\ Halting(u) => thread'[u] = thread[u]
  BY <1>2, <1>5, <1>6 DEF Halting
<1>9. Types'
  BY <1>1, <1>2, <1>6 DEF Types
<1>10. Turns'
  <2>1. \A u \in Callers : thread'[u].at \notin {"joinWorker", "flush", "stopped"}
    BY <1>1, <1>6 DEF Turns
  <2>2. \A u \in Threads : /\ thread'[u].at = "build" => thread'[u].build
                           /\ thread'[u].build => applying' = u
    BY <1>1, <1>2, <1>5, <1>6 DEF Turns
  <2>3. thread'[Main].at \notin {"enter", "build"} /\ ~ thread'[Main].build
        /\ thread'[Main].gate = NoGate
    BY <1>1, <1>5, <1>6, <1>7 DEF Turns
  <2> QED BY <1>1, <1>2, <1>7, <1>8, <2>1, <2>2, <2>3 DEF Turns
<1>11. Owners'
  BY <1>1, <1>2, <1>8, OwnersCalm
<1>12. OnTheWay'
  BY <1>1, <1>2, <1>7 DEF OnTheWay
<1>13. Arrived'
  BY <1>1, <1>2, <1>7 DEF Arrived
<1>14. Promised'
  BY <1>1, <1>2, <1>5, <1>6, <1>7 DEF Promised
<1>15. Closes'
  BY <1>1, <1>2 DEF Closes
<1> QED BY <1>9, <1>10, <1>11, <1>12, <1>13, <1>14, <1>15 DEF IInv

LEMMA TakeEntriesStep == ASSUME IInv, TakeEntries PROVE IInv'
<1>1. Types /\ Turns /\ Owners /\ OnTheWay /\ Arrived /\ Promised /\ Closes
  BY DEF IInv
<1> DEFINE E == EntryOrNew
           at == IF E.session = 0 THEN "flush" ELSE "stopping"
           l == [Idle EXCEPT !.at = at, !.victim = E.session, !.gate = E.gate]
<1>2. /\ thread[Main].at = "joinWorker" /\ worker.at = "stopped" /\ entry' = {}
      /\ thread' = [thread EXCEPT ![Main] = l]
      /\ UNCHANGED <<applying, mutex, worker, running, session, madeBy, rows, disk,
                     abandoned, asked, kept, dropped, removed>>
  BY DEF TakeEntries, sessionVars, historyVars
<1>3. /\ E \in Entry /\ (Present => E \in entry) /\ \A e \in entry : e = E
      /\ ~ Present => E.gate = NoGate /\ E.session = 0
      /\ Pending = E.gate.held
  BY <1>1, OneEntry, NoneYet
<1>4. E.session \in Sessions \cup {0} /\ E.gate \in Gate
  BY <1>3 DEF Entry
<1> HIDE DEF E
<1>5. at \in {"flush", "stopping"} /\ (at = "stopping" <=> E.session # 0)
  OBVIOUS
<1> HIDE DEF at
<1>6. /\ l \in Locals /\ l.at = at /\ l.victim = E.session /\ l.gate = E.gate /\ ~ l.build
  <2> DEFINE a == [Idle EXCEPT !.at = at]
             b == [a EXCEPT !.victim = E.session]
             c == [b EXCEPT !.gate = E.gate]
  <2>1. c = l
    OBVIOUS
  <2>2. a \in Locals /\ a.at = at /\ ~ a.build
    BY <1>5, NoneYet DEF Locals
  <2> HIDE DEF a
  <2>3. b \in Locals /\ b.at = at /\ ~ b.build /\ b.victim = E.session
    BY <1>4, <2>2 DEF Locals
  <2> HIDE DEF b
  <2>4. c \in Locals /\ c.at = at /\ ~ c.build /\ c.victim = E.session /\ c.gate = E.gate
    BY <1>4, <2>3 DEF Locals
  <2> HIDE DEF c, l
  <2> QED BY <2>1, <2>4
<1> HIDE DEF l
<1>7. Main \in Threads /\ ~ Halting(Main)
  BY <1>2 DEF Threads, Halting
<1>8. /\ thread' \in [Threads -> Locals] /\ thread'[Main] = l
      /\ \A u \in Threads : u # Main => thread'[u] = thread[u]
      /\ \A c \in Callers : c \in Threads /\ c # Main
  BY <1>1, <1>2, <1>6, <1>7, Moved
<1>9. ~ running /\ worker.batch = {} /\ BeforeShutdown /\ Flushed = {} /\ ~ BeforeShutdown'
  <2>1. ~ running /\ worker.batch = {}
    BY <1>1, <1>2 DEF Turns
  <2>2. BeforeShutdown
    BY <1>2 DEF BeforeShutdown
  <2>3. thread[Main].gate = NoGate
    BY <1>1, <2>2 DEF Turns
  <2>4. Flushed = {}
    BY <2>3, NoneYet DEF Flushed
  <2>5. ~ BeforeShutdown'
    BY <1>5, <1>6, <1>8 DEF BeforeShutdown
  <2> QED BY <2>1, <2>2, <2>4, <2>5
<1>10. Pending' = {} /\ Flushed' = Pending /\ ~ Intact' /\ Settled' = Settled
  BY <1>2, <1>3, <1>6, <1>8, <1>9 DEF Pending, Flushed, Intact, Settled
<1>11. Types'
  BY <1>1, <1>2, <1>8 DEF Types
<1>12. Turns'
  <2>1. \A u \in Callers : thread'[u].at \notin {"joinWorker", "flush", "stopped"}
    BY <1>1, <1>8 DEF Turns
  <2>2. \A u \in Threads : /\ thread'[u].at = "build" => thread'[u].build
                           /\ thread'[u].build => applying' = u
    BY <1>1, <1>2, <1>5, <1>6, <1>8 DEF Turns
  <2>3. thread'[Main].at \notin {"enter", "build"} /\ ~ thread'[Main].build
    BY <1>5, <1>6, <1>8
  <2> QED BY <1>1, <1>2, <1>9, <1>10, <2>1, <2>2, <2>3 DEF Turns
<1>13. Owners'
  <2>1. CASE E.session = 0
    <3>1. \A u \in Threads : Halting(u)' = Halting(u) /\ (Halting(u) => thread'[u] = thread[u])
      BY <1>5, <1>6, <1>7, <1>8, <2>1 DEF Halting
    <3>2. \A d \in entry : d.session = 0
      BY <1>3, <2>1
    <3> QED BY <1>1, <1>2, <3>1, <3>2, OwnersCalm
  <2>2. CASE E.session # 0
    <3>1. E \in entry /\ l.at = "stopping"
      BY <1>3, <1>5, <1>6, <2>2
    <3> QED BY <1>1, <1>2, <1>6, <1>7, <2>2, <3>1, OwnersTake
  <2> QED BY <2>1, <2>2
<1>14. OnTheWay'
  BY <1>1, <1>2, <1>10 DEF OnTheWay
<1>15. Arrived'
  BY <1>1, <1>2, <1>10 DEF Arrived
<1>16. Promised'
  <2>1. ASSUME ~ removed, NEW f \in asked \cap Pending
        PROVE  f \in E.gate.saves
    <3>1. Intact /\ E \in entry
      BY <1>3, <1>9, <2>1, NoneYet DEF Intact
    <3> QED BY <1>1, <1>3, <2>1, <3>1 DEF Promised
  <2> QED BY <1>1, <1>2, <1>6, <1>8, <1>10, <2>1 DEF Promised
<1>17. Closes'
  BY <1>1, <1>2 DEF Closes
<1> QED BY <1>11, <1>12, <1>13, <1>14, <1>15, <1>16, <1>17 DEF IInv

LEMMA FlushStep == ASSUME IInv, Flush PROVE IInv'
<1>1. Types /\ Turns /\ Owners /\ OnTheWay /\ Arrived /\ Promised /\ Closes
  BY DEF IInv
<1> DEFINE G == thread[Main].gate
           l == [Idle EXCEPT !.at = "stopped"]
<1>2. /\ thread[Main].at = "flush" /\ thread' = [thread EXCEPT ![Main] = l]
      /\ UNCHANGED <<entry, applying, mutex, worker, running, session, madeBy, abandoned,
                     asked, removed>>
  BY DEF Flush
<1>3. PICK drop \in Droppable(G, G.held) :
        /\ kept' = kept \cup (G.held \ drop) /\ dropped' = dropped \cup drop
        /\ disk' = disk \ drop
        /\ rows' = Unlisted(drop) \/ rows' = rows
  BY DEF Flush
<1>4. Main \in Threads /\ G \in Gate /\ G.held \subseteq Files
  BY <1>1 DEF Types, Threads, Locals, Gate
<1> HIDE DEF G
<1>5. drop \subseteq G.held /\ drop \cap G.saves = {}
  BY <1>3, <1>4, DroppableIs
<1>6. l \in Locals /\ l.at = "stopped" /\ l.gate = NoGate /\ ~ l.build
  BY NoneYet DEF Locals
<1> HIDE DEF l
<1>7. /\ thread' \in [Threads -> Locals] /\ thread'[Main] = l
      /\ \A u \in Threads : u # Main => thread'[u] = thread[u]
      /\ \A c \in Callers : c \in Threads /\ c # Main
  BY <1>1, <1>2, <1>4, <1>6, Moved
<1>8. ~ BeforeShutdown /\ ~ BeforeShutdown' /\ ~ Intact' /\ Pending' = Pending
  BY <1>2, <1>6, <1>7 DEF BeforeShutdown, Intact, Pending
<1>9. Flushed' = {} /\ Flushed = G.held /\ Settled' \subseteq Settled
      /\ kept' \cup dropped' \subseteq Flushed \cup kept \cup dropped /\ drop \subseteq Flushed
  <2>1. Flushed' = {}
    BY <1>6, <1>7, NoneYet DEF Flushed
  <2>2. Flushed = G.held
    BY DEF Flushed, G
  <2> QED BY <1>2, <1>3, <1>5, <1>8, <2>1, <2>2 DEF Settled
<1>10. /\ rows' \in [Files -> {"none", "recording", "complete"}]
       /\ \A f \in Files : rows'[f] = rows[f] \/ (f \in drop /\ rows'[f] = "none")
  BY <1>1, <1>3 DEF Types, Unlisted
<1>11. \A f \in Files : f \notin drop => rows'[f] = rows[f] /\ (f \in disk' <=> f \in disk)
  BY <1>3, <1>10
<1>12. Types'
  BY <1>1, <1>2, <1>3, <1>4, <1>5, <1>7, <1>10 DEF Types
<1>13. Turns'
  <2>1. \A u \in Callers : thread'[u].at \notin {"joinWorker", "flush", "stopped"}
    BY <1>1, <1>7 DEF Turns
  <2>2. \A u \in Threads : /\ thread'[u].at = "build" => thread'[u].build
                           /\ thread'[u].build => applying' = u
    BY <1>1, <1>2, <1>6, <1>7 DEF Turns
  <2> QED BY <1>1, <1>2, <1>6, <1>7, <1>8, <2>1, <2>2 DEF Turns
<1>14. Owners'
  <2>1. \A u \in Threads : Halting(u)' = Halting(u) /\ (Halting(u) => thread'[u] = thread[u])
    BY <1>2, <1>6, <1>7 DEF Halting
  <2> QED BY <1>1, <1>2, <2>1, OwnersCalm
<1>15. OnTheWay'
  <2>1. ASSUME NEW r \in Sessions, NEW f \in Under(session'[r])
        PROVE  /\ madeBy'[f] = r /\ f \in disk' /\ rows'[f] # "complete" /\ f \notin Settled'
    <3>1. /\ madeBy[f] = r /\ f \in disk /\ rows[f] # "complete" /\ f \notin Settled
          /\ f \in Files
      BY <1>1, <1>2, <2>1 DEF OnTheWay, Types
    <3>2. f \notin drop
      BY <1>9, <3>1 DEF Settled
    <3> QED BY <1>2, <1>9, <1>11, <3>1, <3>2
  <2>2. ASSUME NEW r \in Sessions, session'[r].storing # 0
        PROVE  LET f == session'[r].storing
               IN  madeBy'[f] = r /\ f \in disk' /\ rows'[f] = "complete" /\ f \notin Settled'
    <3> DEFINE f == session[r].storing
    <3>1. /\ madeBy[f] = r /\ f \in disk /\ rows[f] = "complete" /\ f \notin Settled
          /\ f \in Files
      BY <1>1, <1>2, <2>2 DEF OnTheWay, Types
    <3>2. f \notin drop
      BY <1>9, <3>1 DEF Settled
    <3> QED BY <1>2, <1>9, <1>11, <3>1, <3>2
  <2>3. \A r \in Sessions : Once(session'[r])
    BY <1>1, <1>2 DEF OnTheWay
  <2> QED BY <2>1, <2>2, <2>3 DEF OnTheWay
<1>16. Arrived'
  <2>1. \A f \in Pending' : rows'[f] = "complete" /\ f \in disk'
    <3> SUFFICES ASSUME NEW f \in Pending  PROVE rows'[f] = "complete" /\ f \in disk'
      BY <1>8
    <3>1. rows[f] = "complete" /\ f \in disk /\ f \notin Flushed /\ f \in Files
      BY <1>1 DEF Arrived, Types
    <3> QED BY <1>9, <1>11, <3>1
  <2>2. Pending' \cap (Flushed' \cup kept' \cup dropped' \cup worker'.batch) = {}
    BY <1>1, <1>2, <1>8, <1>9 DEF Arrived
  <2>3. \A f \in Files : madeBy'[f] = 0 => f \notin Settled' \cup asked' /\ rows'[f] = "none"
    BY <1>1, <1>2, <1>9, <1>10 DEF Arrived
  <2> QED BY <2>1, <2>2, <2>3 DEF Arrived
<1>17. Promised'
  <2>1. ~ removed => asked \cap dropped' = {}
    <3>1. ~ removed => asked \cap Flushed \subseteq G.saves
      BY <1>1 DEF Promised, G
    <3> QED BY <1>1, <1>3, <1>5, <1>9, <3>1 DEF Promised
  <2> QED BY <1>2, <1>8, <1>9, <2>1 DEF Promised
<1>18. Closes'
  <2>1. \A f \in Files : rows'[f] = "recording" => rows[f] = "recording"
    BY <1>10
  <2> QED BY <1>1, <1>2, <2>1 DEF Closes
<1> QED BY <1>12, <1>13, <1>14, <1>15, <1>16, <1>17, <1>18 DEF IInv

-----------------------------------------------------------------------------
LEMMA InitHolds == Init => IInv
<1> SUFFICES ASSUME Init PROVE IInv
  OBVIOUS
<1>1. /\ entry = {} /\ applying = Nobody /\ mutex = Nobody
      /\ \A t \in Threads : thread[t] = Idle
      /\ \A s \in Sessions : session[s] = NewSession
      /\ \A f \in Files : madeBy[f] = 0 /\ rows[f] = "none"
      /\ worker = [at |-> "wait", batch |-> {}, expire |-> FALSE]
      /\ asked = {} /\ kept = {} /\ dropped = {} /\ abandoned = {}
      /\ running = TRUE /\ removed = FALSE /\ disk = {}
  BY DEF Init
<1>2. <<>> \in Seq(Message)
  OBVIOUS
<1>3. NewSession \in Recording
  BY <1>2 DEF NewSession, Recording, Modes
<1>4. DOMAIN NewSession.bus = {}
  BY DEF NewSession
<1>5. /\ Under(NewSession) = {} /\ Once(NewSession) /\ ClosedLater(NewSession)
      /\ NewSession.phase = "unused" /\ NewSession.storing = 0 /\ NewSession.writing = 0
      /\ NewSession.open = {} /\ NewSession.bus = <<>> /\ ~ NewSession.drained
  BY <1>4 DEF Under, Once, ClosedLater, NewSession
<1>6. Main \in Threads /\ \A c \in Callers : c \in Threads
  BY DEF Threads
<1>7. \A t \in Threads : ~ Halting(t) /\ thread[t].gate.held = {} /\ ~ thread[t].build
                         /\ thread[t].at = "idle" /\ thread[t].gate = NoGate
  BY <1>1, NoneYet DEF Halting
<1>8. Pending = {} /\ Flushed = {} /\ Settled = {}
  BY <1>1, <1>6, <1>7 DEF Pending, Flushed, Settled
<1>9. Types
  <2>1. thread \in [Threads -> Locals]
    BY NoneYet DEF Init
  <2>2. session \in [Sessions -> Recording]
    BY <1>3 DEF Init
  <2>3. madeBy \in [Files -> Sessions \cup {0}]
        /\ rows \in [Files -> {"none", "recording", "complete"}]
    BY DEF Init
  <2> QED BY <1>1, <2>1, <2>2, <2>3 DEF Types
<1>10. Turns
  BY <1>1, <1>6, <1>7 DEF Turns, BeforeShutdown
<1>11. Owners
  BY <1>1, <1>5, <1>7 DEF Owners, Alive
<1>12. OnTheWay
  BY <1>1, <1>5 DEF OnTheWay
<1>13. Arrived
  BY <1>1, <1>8 DEF Arrived
<1>14. Promised
  BY <1>1 DEF Promised
<1>15. Closes
  BY <1>1, <1>5 DEF Closes
<1> QED BY <1>9, <1>10, <1>11, <1>12, <1>13, <1>14, <1>15 DEF IInv

LEMMA StutterHolds == ASSUME IInv, UNCHANGED vars PROVE IInv'
<1>1. UNCHANGED <<entry, applying, mutex, thread, worker, running, session, madeBy, rows,
                  disk, asked, kept, dropped, abandoned, removed, calls>>
  BY DEF vars
<1>2. /\ Pending' = Pending /\ Flushed' = Flushed /\ Settled' = Settled /\ Intact' = Intact
      /\ BeforeShutdown' = BeforeShutdown
      /\ \A t \in Threads : Halting(t)' = Halting(t)
      /\ \A s \in Sessions : Alive(s)' = Alive(s)
  BY <1>1 DEF Pending, Flushed, Settled, Intact, BeforeShutdown, Halting, Alive
<1>3. Types'
  BY <1>1 DEF IInv, Types
<1>4. Turns'
  BY <1>1, <1>2 DEF IInv, Turns
<1>5. Owners'
  BY <1>1, <1>2 DEF IInv, Owners
<1>6. OnTheWay'
  BY <1>1, <1>2 DEF IInv, OnTheWay
<1>7. Arrived'
  BY <1>1, <1>2 DEF IInv, Arrived
<1>8. Promised'
  BY <1>1, <1>2 DEF IInv, Promised
<1>9. Closes'
  BY <1>1 DEF IInv, Closes
<1> QED BY <1>3, <1>4, <1>5, <1>6, <1>7, <1>8, <1>9 DEF IInv

LEMMA Kept == ASSUME IInv, [Next]_vars PROVE IInv'
<1>1. ASSUME NEW t \in Callers, Caller(t) PROVE IInv'
  BY <1>1, CallApplyStep, CallRemoveStep DEF Caller
<1>2. ASSUME NEW t \in Threads, Handling(t) PROVE IInv'
  BY <1>2, DecideStep, BuildStep, BeginStopStep, StopWaitingStep, JoinStep DEF Handling
<1>3. ASSUME NEW s \in Sessions, Watcher(s) PROVE IInv'
  BY <1>3, FragmentOpenedStep, FragmentClosedStep, PipelineDoneStep, OfferStep DEF Watcher
<1>4. ASSUME NEW s \in Sessions, Muxer(s) PROVE IInv'
  BY <1>4, OpenFirstStep, CutStep, BreakStep DEF Muxer
<1>5. ASSUME NEW s \in Sessions, Finish(s) PROVE IInv'
  BY <1>5, FinishStep
<1>6. CASE NoteEvent \/ PostRollEnds
  BY <1>6, NoteEventStep, PostRollEndsStep
<1>7. CASE Worker
  BY <1>7, SweepStep, RetireStep, DeleteFilesStep, DeleteRowsStep, WorkerExitsStep DEF Worker
<1>8. CASE CallStop
  BY <1>8, CallStopStep
<1>9. CASE TakeEntries
  BY <1>9, TakeEntriesStep
<1>10. CASE Flush
  BY <1>10, FlushStep
<1>11. CASE UNCHANGED vars
  BY <1>11, StutterHolds
<1> QED BY <1>1, <1>2, <1>3, <1>4, <1>5, <1>6, <1>7, <1>8, <1>9, <1>10, <1>11 DEF Next

(* The invariant all of the theorems below rest on: every thread, session  *)
(* and file of the manager is in one place and has one owner at a time.    *)
THEOREM RecorderInvariant == Spec => []IInv
BY InitHolds, Kept, PTL DEF Spec

LEMMA AtMostOne ==
  ASSUME NEW S, \A x, y \in S : x = y
  PROVE  Cardinality(S) <= 1
<1>1. CASE S = {}
  BY <1>1, FS_EmptySet
<1>2. CASE S # {}
  <2>1. PICK x : S = {x}
    BY <1>2
  <2> QED BY <2>1, FS_Singleton
<1> QED BY <1>1, <1>2

(* Type correctness: one entry at most for the camera, and every thread,   *)
(* session, row and file in one of the states the code knows.              *)
THEOREM RecorderTypeCorrect == Spec => []TypeOK
<1>1. IInv => TypeOK
  <2> SUFFICES ASSUME IInv PROVE TypeOK
    OBVIOUS
  <2>1. Types
    BY DEF IInv
  <2>2. Cardinality(entry) <= 1
    BY <2>1, AtMostOne DEF Types
  <2>3. \A e \in entry : /\ e.camera \in Cameras \cup {NoCamera}
                         /\ e.session \in Sessions \cup {0} /\ e.gate.held \subseteq Files
                         /\ e.builtMode \in Modes
    BY <2>1 DEF Types, Entry, Gate, Versions
  <2>4. \A t \in Threads : /\ thread[t].victim \in Sessions \cup {0}
                           /\ thread[t].at \in {"idle", "enter", "stopping", "draining",
                                "joining", "build", "joinWorker", "flush", "stopped"}
    BY <2>1 DEF Types, Locals
  <2>5. \A s \in Sessions : session[s].phase \in
          {"unused", "running", "draining", "joining", "leaving", "gone"}
    BY <2>1 DEF Types, Recording
  <2>6. worker.at \in {"wait", "files", "rows", "expire", "stopped"}
    BY <2>1 DEF Types
  <2> QED BY <2>1, <2>2, <2>3, <2>4, <2>5, <2>6 DEF Types, TypeOK
<1> QED BY <1>1, RecorderInvariant, PTL

(* However many threads call apply(), and although it releases m_mutex     *)
(* while it stops one session and builds the next, there is never a second *)
(* session for the camera, the one still draining included.                *)
THEOREM RecorderNoRivalSessions == Spec => []NoRivalSessions
<1>1. IInv => NoRivalSessions
  <2> SUFFICES ASSUME IInv, running, ~ removed
               PROVE  Cardinality({s \in Sessions : Alive(s)}) <= 1
    BY DEF NoRivalSessions
  <2>1. Types /\ Turns /\ Owners
    BY DEF IInv
  <2>2. Intact
    BY <2>1 DEF Turns, Intact, BeforeShutdown
  <2>3. \A t \in Threads : Halting(t) => applying = t /\ applying # Nobody
    BY <2>1, <2>2, RecorderAssumption DEF Turns, Threads
  <2>4. ASSUME NEW r \in Sessions, Alive(r), NEW s \in Sessions, Alive(s)
        PROVE  r = s
    <3>1. r # 0 /\ s # 0
      BY DEF Sessions
    <3>2. CASE \E t \in Threads : Halting(t)
      <4>1. PICK t \in Threads : Halting(t)
        BY <3>2
      <4>2. \A e \in entry : e.session = 0
        BY <2>1, <2>3, <4>1 DEF Turns
      <4>3. /\ \E u \in Threads : Halting(u) /\ thread[u].victim = r
            /\ \E u \in Threads : Halting(u) /\ thread[u].victim = s
        BY <2>1, <2>4, <3>1, <4>2 DEF Owners
      <4> QED BY <2>3, <4>1, <4>3
    <3>3. CASE \A t \in Threads : ~ Halting(t)
      <4>1. /\ \E e \in entry : e.session = r
            /\ \E e \in entry : e.session = s
        BY <2>1, <2>4, <3>3 DEF Owners
      <4> QED BY <2>1, <4>1 DEF Types
    <3> QED BY <3>2, <3>3
  <2> QED BY <2>4, AtMostOne
<1> QED BY <1>1, RecorderInvariant, PTL

(* Footage an event asked for is dropped by no gate, however often apply() *)
(* replaced the session and its gate between the event and the closing of  *)
(* the file, and at shutdown neither.                                      *)
THEOREM RecorderAskedFootageSurvives == Spec => []AskedFootageSurvives
<1>1. IInv => AskedFootageSurvives
  BY DEF IInv, Promised, AskedFootageSurvives
<1> QED BY <1>1, RecorderInvariant, PTL

(* No sweep, retention pass or flush deletes the file a muxer is writing.  *)
THEOREM RecorderOpenFileStays == Spec => []OpenFileStays
<1>1. IInv => OpenFileStays
  BY DEF IInv, OnTheWay, Under, OpenFileStays
<1> QED BY <1>1, RecorderInvariant, PTL

(* What a gate holds is a finished file with a complete row, not yet kept  *)
(* or dropped: nothing is offered, decided or deleted twice.               *)
THEOREM RecorderHeldIsListedAndUndecided == Spec => []HeldIsListedAndUndecided
<1>1. IInv => HeldIsListedAndUndecided
  <2> SUFFICES ASSUME IInv, NEW e \in entry, NEW f \in e.gate.held
               PROVE  rows[f] = "complete" /\ f \in disk /\ f \notin kept \cup dropped
    BY DEF HeldIsListedAndUndecided
  <2>1. f \in Pending
    BY DEF Pending
  <2> QED BY <2>1 DEF IInv, Arrived
<1> QED BY <1>1, RecorderInvariant, PTL

(* A stopped session leaves no row "recording", unless its pipeline, the   *)
(* database or the three-second wait for the drain failed.                 *)
THEOREM RecorderNoRowLeftOpen == Spec => []NoRowLeftOpen
<1>1. IInv => NoRowLeftOpen
  <2> SUFFICES ASSUME IInv, NEW f \in Files, madeBy[f] # 0,
                      session[madeBy[f]].phase = "gone", madeBy[f] \notin abandoned,
                      rows[f] = "recording"
               PROVE  FALSE
    BY DEF NoRowLeftOpen
  <2>1. madeBy[f] \in Sessions /\ ~ Alive(madeBy[f])
    BY DEF IInv, Types, Alive
  <2>2. f \in session[madeBy[f]].open
    BY DEF IInv, Closes
  <2> QED BY <2>1, <2>2 DEF IInv, Owners
<1> QED BY <1>1, RecorderInvariant, PTL

-----------------------------------------------------------------------------
(* Who waits for whom.                                                     *)

(* What the next step of a thread has to wait for: m_applyMutex and        *)
(* m_mutex, the drain (three seconds at most), the watcher's handler, the  *)
(* worker.  Then the same of a watcher, of a muxer that was given EOS, and *)
(* of the worker.  The bound on sessions is nothing a thread waits for.    *)
CanGo(t) ==
  \/ thread[t].at = "enter" /\ MayApply(t) /\ mutex = Nobody
  \/ thread[t].at = "stopping"
  \/ thread[t].at = "draining" /\ (Drained(thread[t].victim) \/ Failures)
  \/ thread[t].at = "joining" /\ session[thread[t].victim].storing = 0
  \/ thread[t].at = "build" /\ mutex \in {Nobody, t}
  \/ thread[t].at = "joinWorker" /\ worker.at = "stopped" /\ mutex = Nobody
  \/ thread[t].at = "flush"
WatcherCanGo(s) ==
  \/ \E kind \in {"opened", "closed", "eos", "error"} : CanPop(s, kind)
  \/ session[s].storing # 0 /\ mutex = Nobody
MuxerCanFinish(s) ==
  /\ session[s].phase = "draining" /\ ~ session[s].broken /\ ~ session[s].drained
  /\ <<"eos", 0>> \notin {session[s].bus[i] : i \in DOMAIN session[s].bus}
WorkerCanGo ==
  worker.at \in {"expire", "files", "rows"} \/ (worker.at = "wait" /\ ~ running)

(* Every thread inside apply(), remove() or stop() can go on, or waits for *)
(* the watcher or the muxer of the session it stops, which can; or it is   *)
(* before apply()'s mutex, and that is so of the thread that has it; or it *)
(* is stop() and the worker can go on.  No longer chain of waits exists,   *)
(* so none is closed.                                                      *)
Served(t) ==
  \/ CanGo(t)
  \/ Halting(t) /\ (WatcherCanGo(thread[t].victim) \/ MuxerCanFinish(thread[t].victim))
WaitsAreServed ==
  \A t \in Threads : thread[t].at \notin {"idle", "stopped"} =>
    \/ Served(t)
    \/ thread[t].at = "enter" /\ applying \in Threads \ {t} /\ Served(applying)
    \/ thread[t].at = "joinWorker" /\ WorkerCanGo

(* m_mutex is held across no step, m_applyMutex only while its owner stops *)
(* or builds a session, and a pipeline breaks only where failures happen.  *)
Waits ==
  /\ mutex = Nobody /\ applying # Main
  /\ \A t \in Threads : applying = t => Halting(t) \/ thread[t].at = "build"
  /\ \A s \in Sessions : session[s].broken => Failures

(* A step of a thread leaves m_applyMutex to whoever has it, returns it,   *)
(* or has it and goes on to stop or to build.                              *)
LEMMA ThreadWaits ==
  ASSUME Types, Waits, NEW t \in Threads, NEW n, thread' = [thread EXCEPT ![t] = n],
         mutex' = Nobody, \A s \in Sessions : session'[s].broken => session[s].broken \/ Failures,
         \/ applying' = Nobody
         \/ /\ applying' = applying
            /\ applying = t => n.at \in {"stopping", "draining", "joining", "build"}
         \/ applying' = t /\ t # Main /\ n.at \in {"stopping", "draining", "joining", "build"}
  PROVE  Waits'
<1>1. /\ thread'[t] = n /\ \A u \in Threads \ {t} : thread'[u] = thread[u]
      /\ Nobody \notin Threads /\ Main \in Threads
  BY RecorderAssumption DEF Types, Threads
<1> QED BY <1>1 DEF Waits, Halting

(* Whatever else happens leaves the mutexes to their owners.               *)
LEMMA OthersWait ==
  ASSUME Waits, UNCHANGED <<thread, applying, mutex>>,
         \A s \in Sessions : session'[s].broken => session[s].broken \/ Failures
  PROVE  Waits'
BY DEF Waits, Halting

LEMMA DecideWaits == ASSUME IInv, Waits, NEW t \in Threads, Decide(t) PROVE Waits'
<1> DEFINE d == Decision(EntryOrNew, thread[t].camera, thread[t].known)
           next == IF d.victim # 0 THEN "stopping" ELSE IF d.build THEN "build" ELSE "idle"
           n == IF next = "idle" THEN Idle
                ELSE [thread[t] EXCEPT !.at = next, !.victim = d.victim, !.build = d.build]
<1>1. /\ thread' = [thread EXCEPT ![t] = n] /\ mutex' = Nobody
      /\ session' = session /\ applying = Nobody
      /\ applying' = IF next = "idle" THEN applying ELSE t
  BY DEF Decide, MutexWhileStopping, MayApply, sessionVars
<1>2. t # Main
  BY DEF Decide, IInv, Turns
<1>3. DOMAIN thread[t] = DOMAIN Idle /\ "at" \in DOMAIN thread[t]
  BY DEF IInv, Types, Locals, Idle
<1>4. next \in {"stopping", "build", "idle"}
  OBVIOUS
<1>5. next # "idle" => n.at = next
  BY <1>3
<1> HIDE DEF n, next
<1>6. applying' = Nobody
      \/ (applying' = t /\ t # Main /\ n.at \in {"stopping", "draining", "joining", "build"})
  BY <1>1, <1>2, <1>4, <1>5
<1> QED BY <1>1, <1>6, ThreadWaits DEF IInv

LEMMA BuildWaits == ASSUME IInv, Waits, NEW t \in Threads, Build(t) PROVE Waits'
<1>1. thread' = [thread EXCEPT ![t] = Idle] /\ applying' = Nobody /\ mutex' = Nobody
  BY DEF Build
<1>2. PICK b, mode : \/ session' = session
                     \/ session' = [session EXCEPT ![b].phase = "running", ![b].mode = mode]
  BY DEF Build
<1>3. ASSUME NEW s \in Sessions PROVE session'[s].broken = session[s].broken
  <2>1. /\ DOMAIN session = Sessions
        /\ DOMAIN session[s] = {"phase", "mode", "writing", "open", "bus", "storing", "drained",
                                "broken"}
    BY DEF IInv, Types, Recording
  <2>2. CASE session' = session
    BY <2>2
  <2>3. CASE session' # session
    <3>1. session'[s] = session[s]
          \/ session'[s] = [session[s] EXCEPT !.phase = "running", !.mode = mode]
      BY <1>2, <2>1, <2>3
    <3> QED BY <2>1, <3>1
  <2> QED BY <2>2, <2>3
<1> QED BY <1>1, <1>3, ThreadWaits DEF IInv

LEMMA CallWaits ==
  ASSUME IInv, Waits, NEW t \in Callers, CallApply(t) \/ CallRemove(t) PROVE Waits'
<1>1. /\ t \in Threads /\ thread[t].at = "idle" /\ applying' = applying /\ mutex' = mutex
      /\ session' = session
  BY DEF CallApply, CallRemove, Threads, sessionVars
<1>2. applying # t
  BY <1>1 DEF Waits, Halting
<1>3. \E n : thread' = [thread EXCEPT ![t] = n]
  BY DEF CallApply, CallRemove
<1> QED BY <1>1, <1>2, <1>3, ThreadWaits DEF IInv, Waits

LEMMA StopWaits ==
  ASSUME IInv, Waits, NEW t \in Threads, BeginStop(t) \/ StopWaiting(t) PROVE Waits'
<1>1. PICK next \in {"draining", "joining"} : thread' = [thread EXCEPT ![t].at = next]
  BY DEF BeginStop, StopWaiting
<1>2. UNCHANGED <<applying, mutex>>
  BY DEF BeginStop, StopWaiting
<1>3. ASSUME NEW s \in Sessions PROVE session'[s].broken = session[s].broken
  BY DEF BeginStop, StopWaiting, IInv, Types, Recording
<1> DEFINE n == [thread[t] EXCEPT !.at = next]
<1>4. thread' = [thread EXCEPT ![t] = n] /\ n.at = next
  BY <1>1 DEF IInv, Types, Locals
<1> HIDE DEF n
<1> QED BY <1>1, <1>2, <1>3, <1>4, ThreadWaits DEF IInv, Waits

LEMMA JoinWaits == ASSUME IInv, Waits, NEW t \in Threads, Join(t) PROVE Waits'
<1> DEFINE next == IF thread[t].build THEN "build" ELSE IF t = Main THEN "flush" ELSE "idle"
           n == IF next = "idle" THEN Idle ELSE [thread[t] EXCEPT !.at = next]
<1>1. /\ thread' = [thread EXCEPT ![t] = n]
      /\ applying' = IF next = "idle" /\ applying = t THEN Nobody ELSE applying
      /\ mutex' = IF next = "idle" /\ mutex = t THEN Nobody ELSE mutex
  BY DEF Join
<1>2. ASSUME NEW s \in Sessions PROVE session'[s].broken = session[s].broken
  BY DEF Join, IInv, Types, Recording
<1>3. next \in {"build", "flush", "idle"} /\ (next = "flush" => t = Main)
  OBVIOUS
<1>4. next # "idle" => n.at = next
  BY DEF IInv, Types, Locals
<1> HIDE DEF n, next
<1>5. mutex' = Nobody
  BY <1>1 DEF Waits
<1>6. applying = t => t # Main
  BY DEF Waits
<1>7. \/ applying' = Nobody
      \/ /\ applying' = applying
         /\ applying = t => n.at \in {"stopping", "draining", "joining", "build"}
  BY <1>1, <1>3, <1>4, <1>6
<1> QED BY <1>1, <1>2, <1>5, <1>7, ThreadWaits DEF IInv

LEMMA ShutdownWaits ==
  ASSUME IInv, Waits, CallStop \/ TakeEntries \/ Flush PROVE Waits'
<1>1. /\ Main \in Threads /\ UNCHANGED <<applying, mutex, session>>
      /\ applying # Main
  BY DEF CallStop, TakeEntries, Flush, Threads, Waits, sessionVars
<1>2. \E n : thread' = [thread EXCEPT ![Main] = n]
  BY DEF CallStop, TakeEntries, Flush
<1> QED BY <1>1, <1>2, ThreadWaits DEF IInv, Waits

LEMMA MessagesWait ==
  ASSUME IInv, Waits, NEW s \in Sessions, Watcher(s) \/ Muxer(s) \/ Finish(s) PROVE Waits'
<1>1. UNCHANGED <<thread, applying, mutex>>
  BY DEF Watcher, FragmentOpened, FragmentClosed, PipelineDone, Offer, Muxer, OpenFirst, Cut,
         Break, Finish, watcherUnchanged
<1>2. ASSUME NEW r \in Sessions PROVE session'[r].broken => session[r].broken \/ Failures
  <2>1. CASE Muxer(s)
    BY <2>1 DEF Muxer, OpenFirst, Cut, Break, IInv, Types, Recording
  <2>2. CASE Finish(s)
    BY <2>2 DEF Finish, IInv, Types, Recording
  <2>3. CASE Watcher(s)
    <3>1. PICK x : session' = [session EXCEPT ![s] = x] /\ x.broken = session[s].broken
      <4>1. session[s] \in Recording
        BY DEF IInv, Types
      <4>2. Popped(s).broken = session[s].broken /\ DOMAIN Popped(s) = DOMAIN session[s]
        BY <4>1 DEF Popped, Recording
      <4>3. DOMAIN session[s] = {"phase", "mode", "writing", "open", "bus", "storing", "drained",
                                 "broken"}
        BY <4>1 DEF Recording
      <4>4. CASE FragmentOpened(s)
        <5> PICK open : open = Popped(s).open \cup {Head(session[s].bus)[2]}
          OBVIOUS
        <5> PICK x : x = [Popped(s) EXCEPT !.open = open]
          OBVIOUS
        <5>1. session' = [session EXCEPT ![s] = x]
          BY <4>4 DEF FragmentOpened
        <5>2. x.broken = session[s].broken
          BY <4>2, <4>3
        <5> QED BY <5>1, <5>2
      <4>5. CASE FragmentClosed(s)
        <5>1. PICK open, storing :
                \/ session' = [session EXCEPT ![s] = Popped(s)]
                \/ session' = [session EXCEPT ![s] =
                                 [Popped(s) EXCEPT !.open = open, !.storing = storing]]
          BY <4>5 DEF FragmentClosed
        <5> PICK x : x = [Popped(s) EXCEPT !.open = open, !.storing = storing]
          OBVIOUS
        <5>2. x.broken = session[s].broken
          BY <4>2, <4>3
        <5> QED BY <4>2, <5>1, <5>2
      <4>6. CASE PipelineDone(s)
        <5> PICK x : x = [Popped(s) EXCEPT !.drained = TRUE]
          OBVIOUS
        <5>1. session' = [session EXCEPT ![s] = x]
          BY <4>6 DEF PipelineDone
        <5>2. x.broken = session[s].broken
          BY <4>2, <4>3
        <5> QED BY <5>1, <5>2
      <4>7. CASE Offer(s)
        <5> PICK x : x = [session[s] EXCEPT !.storing = 0]
          OBVIOUS
        <5>1. session' = [session EXCEPT ![s] = x]
          BY <4>7 DEF Offer
        <5>2. x.broken = session[s].broken
          BY <4>3
        <5> QED BY <5>1, <5>2
      <4> QED BY <2>3, <4>4, <4>5, <4>6, <4>7 DEF Watcher
    <3> QED BY <3>1 DEF IInv, Types
  <2> QED BY <2>1, <2>2, <2>3
<1> QED BY <1>1, <1>2, OthersWait

LEMMA NextWaits == ASSUME IInv, Waits, [Next]_vars PROVE Waits'
<1>1. CASE NoteEvent \/ PostRollEnds \/ Worker \/ UNCHANGED vars
  <2>1. UNCHANGED <<thread, applying, mutex, session>>
    BY <1>1 DEF NoteEvent, PostRollEnds, Worker, Sweep, Retire, DeleteFiles, DeleteRows, WorkerExits,
               workerUnchanged, sessionVars, vars
  <2> QED BY <2>1, OthersWait
<1>2. CASE CallStop \/ TakeEntries \/ Flush
  BY <1>2, ShutdownWaits
<1>3. ASSUME NEW t \in Callers, Caller(t) PROVE Waits'
  BY <1>3, CallWaits DEF Caller
<1>4. ASSUME NEW t \in Threads, Handling(t) PROVE Waits'
  BY <1>4, DecideWaits, BuildWaits, StopWaits, JoinWaits DEF Handling
<1>5. ASSUME NEW s \in Sessions, Watcher(s) \/ Muxer(s) \/ Finish(s) PROVE Waits'
  BY <1>5, MessagesWait
<1> QED BY <1>1, <1>2, <1>3, <1>4, <1>5 DEF Next

(* A thread that stops a session or builds one is served: what the watcher *)
(* does last on behalf of the session needs m_mutex, which is free.        *)
LEMMA BusyIsServed ==
  ASSUME IInv, Waits, NEW t \in Threads, Halting(t) \/ thread[t].at = "build" PROVE Served(t)
<1>1. CASE thread[t].at \in {"stopping", "build"}
  BY <1>1 DEF Served, CanGo, Waits
<1>2. CASE thread[t].at \in {"draining", "joining"}
  <2> PICK s : s = thread[t].victim
    OBVIOUS
  <2>1. /\ Halting(t) /\ s \in Sessions
        /\ thread[t].at = "draining" => session[s].phase = "draining"
    BY <1>2 DEF Halting, IInv, Types, Locals, Owners
  <2>2. CASE session[s].storing # 0
    BY <2>1, <2>2 DEF Served, WatcherCanGo, Waits
  <2>3. CASE session[s].storing = 0 /\ thread[t].at = "joining"
    BY <2>3 DEF Served, CanGo
  <2>4. CASE session[s].storing = 0 /\ thread[t].at = "draining"
    <3>1. CASE session[s].bus # <<>>
      <4>1. session[s].bus \in Seq(Message)
        BY <2>1 DEF IInv, Types, Recording
      <4>2. Head(session[s].bus) \in Message
        BY <3>1, <4>1, HeadTailProperties
      <4>3. Head(session[s].bus)[1] \in {"opened", "closed", "eos", "error"}
        BY <4>2 DEF Message
      <4>4. WatcherCanGo(s)
        BY <2>1, <2>4, <3>1, <4>3 DEF WatcherCanGo, CanPop
      <4> QED BY <2>1, <4>4 DEF Served
    <3>2. CASE session[s].bus = <<>> /\ ~ session[s].drained /\ ~ Failures
      <4>1. ~ session[s].broken
        BY <2>1, <3>2 DEF Waits
      <4>2. \A i : i \notin DOMAIN session[s].bus
        BY <3>2
      <4>3. MuxerCanFinish(s)
        BY <2>1, <2>4, <3>2, <4>1, <4>2 DEF MuxerCanFinish
      <4> QED BY <2>1, <4>3 DEF Served
    <3>3. CASE session[s].drained \/ Failures
      BY <2>4, <3>3 DEF Served, CanGo, Drained
    <3> QED BY <3>1, <3>2, <3>3
  <2> QED BY <1>2, <2>2, <2>3, <2>4
<1> QED BY <1>1, <1>2 DEF Halting

(* Whoever is inside a call of the manager waits for somebody who can go   *)
(* on, for any number of threads: nobody waits in a circle.                *)
THEOREM RecorderWaitsAreServed == Spec => []WaitsAreServed
<1>1. ASSUME IInv, Waits, NEW t \in Threads, thread[t].at \notin {"idle", "stopped"}
      PROVE  \/ Served(t)
             \/ thread[t].at = "enter" /\ applying \in Threads \ {t} /\ Served(applying)
             \/ thread[t].at = "joinWorker" /\ WorkerCanGo
  <2>1. CASE Halting(t) \/ thread[t].at = "build"
    BY <1>1, <2>1, BusyIsServed
  <2>2. CASE thread[t].at = "enter"
    <3>1. CASE applying = Nobody
      BY <2>2, <3>1, <1>1 DEF Served, CanGo, MayApply, Waits
    <3>2. CASE applying # Nobody
      <4>1. applying \in Threads
        BY <1>1, <3>2 DEF IInv, Types
      <4>2. Halting(applying) \/ thread[applying].at = "build"
        BY <1>1, <4>1 DEF Waits
      <4>3. applying # t
        BY <2>2, <4>2 DEF Halting
      <4> QED BY <1>1, <2>2, <4>1, <4>2, <4>3, BusyIsServed
    <3> QED BY <3>1, <3>2
  <2>3. CASE thread[t].at = "joinWorker"
    <3>1. t = Main /\ ~ running
      BY <1>1, <2>3 DEF IInv, Turns, Threads
    <3>2. CASE worker.at = "stopped"
      BY <1>1, <2>3, <3>2 DEF Served, CanGo, Waits
    <3>3. CASE worker.at # "stopped"
      BY <1>1, <2>3, <3>1, <3>3 DEF WorkerCanGo, IInv, Types
    <3> QED BY <3>2, <3>3
  <2>4. CASE thread[t].at = "flush"
    BY <2>4 DEF Served, CanGo
  <2>5. thread[t].at \in {"idle", "enter", "stopping", "draining", "joining", "build",
                          "joinWorker", "flush", "stopped"}
    BY <1>1 DEF IInv, Types, Locals
  <2> QED BY <1>1, <2>1, <2>2, <2>3, <2>4, <2>5 DEF Halting
<1>2. IInv /\ Waits => WaitsAreServed
  BY <1>1 DEF WaitsAreServed
<1>3. Init => Waits
  BY RecorderAssumption DEF Init, Waits, NewSession, Threads
<1>4. Init => IInv
  BY InitHolds
<1>5. IInv /\ Waits /\ [Next]_vars => IInv' /\ Waits'
  BY Kept, NextWaits
<1> QED BY <1>2, <1>3, <1>4, <1>5, PTL DEF Spec
=============================================================================
