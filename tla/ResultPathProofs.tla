-------------------------- MODULE ResultPathProofs --------------------------
(***************************************************************************)
(* For every number of jobs, consumers and pieces: a closed sink is        *)
(* silent, no worker that stop() found in its table writes to one that is  *)
(* closing, and every consumer on the list has whole records but for the   *)
(* one that is being written to.                                           *)
(*                                                                         *)
(* What makes it inductive: the lock is held by the one job that sends;    *)
(* `sending` says how far the record has got with its present target; and  *)
(* who is let in has not been sent anything.                               *)
(***************************************************************************)
EXTENDS ResultPath, SequenceTheorems, TLAPS

(* Whoever sends has the lock; once the sinks are stopped, that is a       *)
(* worker nobody told to end; and a closed sink stays without consumers.   *)
OneSends ==
  /\ \A j \in Jobs : lock = j <=> loop[j] = "sending"
  /\ phase \in {"sinks", "down"} => \A j \in Jobs : running[j] = "on" \/ loop[j] = "ended"
  /\ phase = "down" => clients = <<>> /\ acceptor.at = "ended"

(* A consumer on the list is on it once, and one to be let in is not.       *)
Listed(c) == \E i \in DOMAIN clients : clients[i] = c
ListedOnce ==
  /\ \A i, k \in DOMAIN clients : clients[i] = clients[k] => i = k
  /\ \A c \in Consumers : consumer[c] \in {"out", "calling"} => wire[c] = <<>> /\ ~ Listed(c)
  /\ acceptor.at = "accepted" =>
       /\ acceptor.fd \in Consumers /\ consumer[acceptor.fd] # "out"
       /\ wire[acceptor.fd] = <<>> /\ ~ Listed(acceptor.fd)

(* How far the record under way has got with the one it is sent to, and    *)
(* that everybody else has whole ones.                                     *)
Begun(got) ==
  got # <<>> /\ got[Len(got)].piece = sending.piece - 1 /\ got[Len(got)].rec = sending.rec
AsFarAsSending ==
  /\ lock # Nobody => sending.to \in 1 .. Len(clients) + 1 /\ sending.piece \in 1 .. Pieces
  /\ \A i \in DOMAIN clients :
       LET got == wire[clients[i]]
       IN  /\ \A n \in DOMAIN got : Follows(got, n)
           /\ IF lock # Nobody /\ sending.to = i /\ sending.piece > 1 THEN Begun(got) ELSE EndsWhole(got)

IInv == TypeOK /\ OneSends /\ ListedOnce /\ AsFarAsSending

-----------------------------------------------------------------------------
LEMMA WithoutOne ==
  ASSUME NEW S, NEW s \in Seq(S), NEW i \in 1 .. Len(s)
  PROVE  /\ RemoveAt(s, i) \in Seq(S) /\ Len(RemoveAt(s, i)) = Len(s) - 1
         /\ \A k \in 1 .. Len(s) - 1 : RemoveAt(s, i)[k] = IF k < i THEN s[k] ELSE s[k + 1]
<1> DEFINE before == SubSeq(s, 1, i - 1)  after == SubSeq(s, i + 1, Len(s))
<1>1. /\ before \in Seq(S) /\ Len(before) = i - 1
      /\ \A k \in 1 .. i - 1 : before[k] = s[k]
  BY SMTT(30)
<1>2. /\ after \in Seq(S) /\ Len(after) = Len(s) - i
      /\ \A k \in 1 .. Len(s) - i : after[k] = s[i + k]
  <2>1. \A k \in i + 1 .. Len(s) : s[k] \in S
    OBVIOUS
  <2>2. /\ after \in Seq(S) /\ Len(after) = IF i + 1 <= Len(s) THEN Len(s) - (i + 1) + 1 ELSE 0
        /\ \A k \in 1 .. Len(s) - (i + 1) + 1 : after[k] = s[(i + 1) + k - 1]
    <3>1. i + 1 \in Int /\ Len(s) \in Int
      OBVIOUS
    <3> QED
      BY <2>1, <3>1, SubSeqProperties
  <2> QED
    BY <2>2
<1>3. /\ before \o after \in Seq(S) /\ Len(before \o after) = Len(before) + Len(after)
      /\ \A k \in 1 .. Len(before) + Len(after) :
           (before \o after)[k] = IF k <= Len(before) THEN before[k] ELSE after[k - Len(before)]
  <2> HIDE DEF before, after
  <2> QED
    BY <1>1, <1>2, ConcatProperties
<1>4. RemoveAt(s, i) = before \o after
  BY DEF RemoveAt
<1> HIDE DEF before, after
<1>5. ASSUME NEW k \in 1 .. Len(s) - 1
      PROVE  (before \o after)[k] = IF k < i THEN s[k] ELSE s[k + 1]
  <2>1. CASE k < i
    BY <1>1, <1>2, <1>3, <2>1
  <2>2. CASE ~ k < i
    <3>1. (before \o after)[k] = after[k - (i - 1)]
      BY <1>1, <1>2, <1>3, <2>2
    <3>2. k - (i - 1) \in 1 .. Len(s) - i
      BY <2>2
    <3>3. after[k - (i - 1)] = s[i + (k - (i - 1))]
      BY <1>2, <3>2
    <3>4. i + (k - (i - 1)) = k + 1
      OBVIOUS
    <3> QED
      BY <2>2, <3>1, <3>3, <3>4
  <2> QED
    BY <2>1, <2>2
<1> QED
  BY <1>1, <1>2, <1>3, <1>4, <1>5

-----------------------------------------------------------------------------
LEMMA InitOK == Init => IInv
<1> SUFFICES ASSUME Init PROVE IInv
  OBVIOUS
<1> USE ResultAssumption DEF Init
<1>1. /\ offered = 0 /\ clients = <<>> /\ sending = NothingSent
      /\ \A c \in Consumers : wire[c] = <<>>
  OBVIOUS
<1>2. TypeOK
  <2>1. sending \in [rec : Recs, to : Nat, piece : 0 .. Pieces]
    BY DEF NothingSent, Recs
  <2>2. clients \in Seq(Consumers) /\ wire \in [Consumers -> Seq(WirePiece)]
    OBVIOUS
  <2>3. loop \in [Jobs -> Loops] /\ consumer \in [Consumers -> Doings]
    BY DEF Loops, Doings
  <2> QED
    BY <2>1, <2>2, <2>3 DEF TypeOK
<1>3. OneSends
  BY DEF OneSends
<1>4. ListedOnce
  BY DEF ListedOnce, Listed
<1>5. AsFarAsSending
  BY DEF AsFarAsSending
<1> QED
  BY <1>2, <1>3, <1>4, <1>5 DEF IInv

-----------------------------------------------------------------------------
(* Where the record under way is going.                                    *)
LEMMA TargetOK ==
  ASSUME IInv, lock # Nobody, sending.to <= Len(clients)
  PROVE  /\ sending.to \in 1 .. Len(clients) /\ sending.to \in DOMAIN clients
         /\ Target \in Consumers /\ sending.piece \in 1 .. Pieces
         /\ wire[Target] \in Seq(WirePiece)
<1>1. sending.to \in 1 .. Len(clients) /\ clients \in Seq(Consumers) /\ sending.piece \in 1 .. Pieces
  BY DEF IInv, AsFarAsSending, TypeOK
<1>2. Target \in Consumers /\ sending.to \in DOMAIN clients
  BY <1>1 DEF Target
<1> QED
  BY <1>1, <1>2 DEF IInv, TypeOK

LEMMA TypeStep == IInv /\ [Next]_vars => TypeOK'
<1> SUFFICES ASSUME IInv, [Next]_vars PROVE TypeOK'
  OBVIOUS
<1>0. TypeOK
  BY DEF IInv
<1> USE <1>0, ResultAssumption DEF TypeOK, sinkVars, jobVars
<1>1. ASSUME NEW j \in Jobs, Offer(j) PROVE TypeOK'
  BY <1>1 DEF Offer
<1>2. ASSUME NEW j \in Jobs, Take(j) PROVE TypeOK'
  <2>1. CASE running[j] = "told"
    <3>1. loop' \in [Jobs -> Loops]
      <4>1. loop' = [loop EXCEPT ![j] = "ended"]
        BY <1>2, <2>1, Zenon DEF Take
      <4>2. "ended" \in Loops
        BY DEF Loops
      <4> QED
        BY <4>1, <4>2
    <3> QED
      BY <1>2, <2>1, <3>1 DEF Take
  <2>2. CASE running[j] # "told"
    <3>1. hasPending' \in [Jobs -> BOOLEAN]
      BY <1>2, <2>2, Zenon DEF Take
    <3>2. loop' \in [Jobs -> Loops]
      <4>1. loop' = [loop EXCEPT ![j] = "analysing"]
        BY <1>2, <2>2, Zenon DEF Take
      <4>2. "analysing" \in Loops
        BY DEF Loops
      <4> QED
        BY <4>1, <4>2
    <3> QED
      BY <1>2, <3>1, <3>2 DEF Take
  <2> QED
    BY <2>1, <2>2
<1>3. ASSUME NEW j \in Jobs, NEW found \in BOOLEAN, Analyse(j, found) PROVE TypeOK'
  BY <1>3 DEF Analyse, Loops
<1>4. ASSUME NEW j \in Jobs, Ask(j) PROVE TypeOK'
  BY <1>4 DEF Ask, Loops
<1>5. ASSUME NEW j \in Jobs, Publish(j) PROVE TypeOK'
  <2>1. loop' \in [Jobs -> Loops] /\ lock' \in Jobs \cup {Nobody}
    <3>1. lock' = lock \/ lock' = j
      BY <1>5, Zenon DEF Publish
    <3>2. loop' = [loop EXCEPT ![j] = "waiting"] \/ loop' = [loop EXCEPT ![j] = "sending"]
      BY <1>5, Zenon DEF Publish
    <3>3. "waiting" \in Loops /\ "sending" \in Loops
      BY DEF Loops
    <3>4. loop' \in [Jobs -> Loops]
      BY <3>2, <3>3
    <3> QED
      BY <3>1, <3>4
  <2>2. sending' \in [rec : Recs, to : Nat, piece : 0 .. Pieces]
    <3> DEFINE rec == <<j, seq[j]>>
    <3>1. rec \in Recs
      BY DEF Recs
    <3>2. sending' = sending \/ sending' = [rec |-> rec, to |-> 1, piece |-> 1]
      BY <1>5, Zenon DEF Publish
    <3> HIDE DEF rec
    <3>3. 1 \in 0 .. Pieces
      OBVIOUS
    <3>4. [rec |-> rec, to |-> 1, piece |-> 1] \in [rec : Recs, to : Nat, piece : 0 .. Pieces]
      BY <3>1, <3>3
    <3> QED
      BY <3>2, <3>4
  <2> QED
    BY <1>5, <2>1, <2>2 DEF Publish
<1>6. ASSUME NEW j \in Jobs, Sent(j) PROVE TypeOK'
  <2>1. lock # Nobody /\ sending.to <= Len(clients)
    BY <1>6 DEF Sent
  <2>2. Target \in Consumers /\ sending.piece \in 1 .. Pieces /\ sending.to \in Nat
    BY <2>1, TargetOK
  <2>3. [rec |-> sending.rec, piece |-> sending.piece] \in WirePiece
    BY <2>2 DEF WirePiece
  <2>4. wire' \in [Consumers -> Seq(WirePiece)]
    BY <1>6, <2>2, <2>3 DEF Sent
  <2>5. sending' \in [rec : Recs, to : Nat, piece : 0 .. Pieces]
    <3>1. \/ sending.piece < Pieces /\ sending' = [sending EXCEPT !.piece = @ + 1]
          \/ sending' = [sending EXCEPT !.piece = 1, !.to = @ + 1]
      BY <1>6 DEF Sent
    <3>2. sending.piece < Pieces => sending.piece + 1 \in 0 .. Pieces
      BY <2>2
    <3>3. 1 \in 0 .. Pieces /\ sending.to + 1 \in Nat
      BY <2>2
    <3>4. sending.piece < Pieces
            => [sending EXCEPT !.piece = @ + 1] \in [rec : Recs, to : Nat, piece : 0 .. Pieces]
      BY <3>2
    <3>5. [sending EXCEPT !.piece = 1, !.to = @ + 1] \in [rec : Recs, to : Nat, piece : 0 .. Pieces]
      BY <3>3
    <3> QED
      BY <3>1, <3>4, <3>5
  <2> QED
    BY <1>6, <2>4, <2>5 DEF Sent
<1>7. ASSUME NEW j \in Jobs, SendFails(j) PROVE TypeOK'
  <2>1. lock # Nobody /\ sending.to <= Len(clients)
    BY <1>7 DEF SendFails
  <2>2. sending.to \in 1 .. Len(clients) /\ Target \in Consumers
    BY <2>1, TargetOK
  <2>3. clients' \in Seq(Consumers)
    BY <1>7, <2>2, WithoutOne DEF SendFails, Without
  <2>4. sending' \in [rec : Recs, to : Nat, piece : 0 .. Pieces]
    <3>1. sending' = [sending EXCEPT !.piece = 1, !.to = sending.to]
      BY <1>7 DEF SendFails, FollowingErased
    <3>2. 1 \in 0 .. Pieces
      OBVIOUS
    <3> QED
      BY <3>1, <3>2
  <2>5. consumer' \in [Consumers -> Doings]
    BY <1>7, <2>2 DEF SendFails, Doings
  <2> QED
    BY <1>7, <2>3, <2>4, <2>5 DEF SendFails
<1>8. ASSUME NEW j \in Jobs, Published(j) PROVE TypeOK'
  BY <1>8 DEF Published, NothingSent, Recs, Loops
<1>9. ASSUME NEW c \in Consumers, Accept(c) PROVE TypeOK'
  BY <1>9 DEF Accept
<1>10. ASSUME AcceptFails PROVE TypeOK'
  BY <1>10 DEF AcceptFails
<1>11. ASSUME Admit PROVE TypeOK'
  <2>1. acceptor.fd \in Consumers
    BY <1>11 DEF Admit, IInv, ListedOnce
  <2>2. consumer' \in [Consumers -> Doings]
    BY <1>11, <2>1 DEF Admit, Doings
  <2> QED
    BY <1>11, <2>1, <2>2 DEF Admit
<1>12. ASSUME NEW c \in Consumers, Connect(c) \/ Stall(c) \/ Vanish(c) PROVE TypeOK'
  BY <1>12 DEF Connect, Stall, Vanish, Become, Doings
<1>13. ASSUME StopAi \/ StopSinks \/ \E j \in Jobs : ShutDown(j) PROVE TypeOK'
  <2>1. running' \in [Jobs -> {"on", "taken", "told"}]
    <3>1. CASE StopAi
      BY <3>1 DEF StopAi
    <3>2. CASE StopSinks
      BY <3>2 DEF StopSinks
    <3>3. ASSUME NEW j \in Jobs, ShutDown(j) PROVE running' \in [Jobs -> {"on", "taken", "told"}]
      BY <3>3 DEF ShutDown
    <3> QED
      BY <1>13, <3>1, <3>2, <3>3
  <2>2. /\ UNCHANGED <<offered, hasPending, loop, seq, acceptor, lock, clients, sending, consumer, wire>>
        /\ phase' \in {"up", "ai", "sinks", "down"} /\ serving' \in BOOLEAN
    BY <1>13 DEF StopAi, StopSinks, ShutDown
  <2> QED
    BY <2>1, <2>2
<1>14. ASSUME CloseAll PROVE TypeOK'
  <2>1. consumer' \in [Consumers -> Doings]
    BY <1>14 DEF CloseAll, Doings
  <2> QED
    BY <1>14, <2>1 DEF CloseAll
<1>15. CASE UNCHANGED vars
  BY <1>15 DEF vars
<1>16. ASSUME NEW j \in Jobs, Offer(j) \/ Work(j) PROVE TypeOK'
  BY <1>1, <1>2, <1>3, <1>4, <1>5, <1>6, <1>7, <1>8, <1>16 DEF Work
<1>17. CASE Accepting
  BY <1>9, <1>10, <1>11, <1>17 DEF Accepting
<1>18. CASE StopAi \/ Shutdown
  BY <1>13, <1>14, <1>18 DEF Shutdown
<1> QED
  BY <1>12, <1>15, <1>16, <1>17, <1>18 DEF Next

-----------------------------------------------------------------------------
LEMMA OneSendsStep == IInv /\ [Next]_vars => OneSends'
<1> SUFFICES ASSUME IInv, [Next]_vars PROVE OneSends'
  OBVIOUS
<1>0. TypeOK /\ OneSends
  BY DEF IInv
<1> USE <1>0, ResultAssumption DEF TypeOK, OneSends, sinkVars, jobVars
<1>1. ASSUME NEW j \in Jobs, Offer(j) PROVE OneSends'
  BY <1>1 DEF Offer
<1>2. ASSUME NEW j \in Jobs, Take(j) PROVE OneSends'
  BY <1>2 DEF Take
<1>3. ASSUME NEW j \in Jobs, NEW found \in BOOLEAN, Analyse(j, found) PROVE OneSends'
  BY <1>3 DEF Analyse
<1>4. ASSUME NEW j \in Jobs, Ask(j) PROVE OneSends'
  BY <1>4 DEF Ask
<1>5. ASSUME NEW j \in Jobs, Publish(j) PROVE OneSends'
  BY <1>5 DEF Publish
<1>6. ASSUME NEW j \in Jobs, Sent(j) PROVE OneSends'
  BY <1>6 DEF Sent
<1>7. ASSUME NEW j \in Jobs, SendFails(j) PROVE OneSends'
  <2>1. lock # Nobody /\ sending.to <= Len(clients)
    BY <1>7 DEF SendFails
  <2>2. clients # <<>>
    BY <2>1, TargetOK
  <2>3. UNCHANGED <<lock, loop, running, phase, acceptor>>
    BY <1>7 DEF SendFails
  <2> QED
    BY <2>2, <2>3
<1>8. ASSUME NEW j \in Jobs, Published(j) PROVE OneSends'
  BY <1>8 DEF Published
<1>9. ASSUME Accepting PROVE OneSends'
  BY <1>9 DEF Accepting, Accept, AcceptFails, Admit
<1>10. ASSUME NEW c \in Consumers, Connect(c) \/ Stall(c) \/ Vanish(c) PROVE OneSends'
  BY <1>10 DEF Connect, Stall, Vanish, Become
<1>11. ASSUME StopAi \/ \E j \in Jobs : ShutDown(j) PROVE OneSends'
  BY <1>11 DEF StopAi, ShutDown
<1>12. ASSUME StopSinks \/ CloseAll PROVE OneSends'
  BY <1>12 DEF StopSinks, CloseAll, Joined
<1>13. CASE UNCHANGED vars
  BY <1>13 DEF vars
<1> QED
  BY <1>1, <1>2, <1>3, <1>4, <1>5, <1>6, <1>7, <1>8, <1>9, <1>10, <1>11, <1>12, <1>13 DEF Next, Work, Shutdown

-----------------------------------------------------------------------------
(* A list that loses one element or gains one that was not on it.          *)
LEMMA ListedOnceStep == IInv /\ [Next]_vars => ListedOnce'
<1> SUFFICES ASSUME IInv, [Next]_vars PROVE ListedOnce'
  OBVIOUS
<1>0. TypeOK /\ ListedOnce
  BY DEF IInv
<1>1. ASSUME UNCHANGED <<clients, consumer, wire, acceptor>> PROVE ListedOnce'
  BY <1>0, <1>1 DEF ListedOnce, Listed
<1>2. ASSUME NEW j \in Jobs, Sent(j) PROVE ListedOnce'
  <2>1. lock # Nobody /\ sending.to <= Len(clients)
    BY <1>2, ResultAssumption DEF Sent
  <2>2. Target \in Consumers /\ Listed(Target) /\ consumer[Target] = "reading"
    BY <1>2, <2>1, TargetOK DEF Target, Listed, Sent
  <2>3. /\ UNCHANGED <<clients, consumer, acceptor>>
        /\ \A c \in Consumers : c # Target => wire'[c] = wire[c]
    BY <1>0, <1>2, <2>2 DEF Sent, TypeOK
  <2>4. acceptor.at = "accepted" => acceptor.fd # Target
    BY <1>0, <2>2 DEF ListedOnce
  <2> QED
    BY <1>0, <2>2, <2>3, <2>4 DEF ListedOnce, Listed
<1>3. ASSUME NEW j \in Jobs, SendFails(j) PROVE ListedOnce'
  <2>1. lock # Nobody /\ sending.to <= Len(clients)
    BY <1>3, ResultAssumption DEF SendFails
  <2>2. Target \in Consumers /\ sending.to \in 1 .. Len(clients) /\ clients \in Seq(Consumers)
    BY <1>0, <2>1, TargetOK DEF TypeOK
  <2> DEFINE to == sending.to  At(k) == IF k < to THEN k ELSE k + 1
  <2>3. /\ clients' \in Seq(Consumers) /\ Len(clients') = Len(clients) - 1
        /\ \A k \in 1 .. Len(clients) - 1 : clients'[k] = IF k < to THEN clients[k] ELSE clients[k + 1]
    BY <1>3, <2>2, WithoutOne DEF SendFails, Without
  <2>4. /\ DOMAIN clients' = 1 .. Len(clients) - 1 /\ DOMAIN clients = 1 .. Len(clients)
        /\ to \in Nat /\ Len(clients) \in Nat
    BY <2>2, <2>3
  <2>5. \A k \in DOMAIN clients' : At(k) \in DOMAIN clients /\ clients'[k] = clients[At(k)]
    BY <2>3, <2>4
  <2>6. \A i, k \in DOMAIN clients' : At(i) = At(k) => i = k
    BY <2>4
  <2>7. /\ UNCHANGED <<wire, acceptor>>
        /\ \A c \in Consumers : consumer'[c] \in {"out", "calling"} => consumer[c] = consumer'[c]
    BY <1>0, <1>3, <2>2 DEF SendFails, TypeOK
  <2>8. \A c : Listed(c)' => Listed(c)
    BY <2>5 DEF Listed
  <2>9. \A i, k \in DOMAIN clients' : clients'[i] = clients'[k] => i = k
    BY <1>0, <2>5, <2>6 DEF ListedOnce
  <2>10. \A c \in Consumers : consumer'[c] \in {"out", "calling"} => wire'[c] = <<>> /\ ~ Listed(c)'
    BY <1>0, <2>7, <2>8 DEF ListedOnce
  <2>11. acceptor'.at = "accepted" =>
           /\ acceptor'.fd \in Consumers /\ consumer'[acceptor'.fd] # "out"
           /\ wire'[acceptor'.fd] = <<>> /\ ~ Listed(acceptor.fd)'
    <3>1. UNCHANGED acceptor /\ UNCHANGED wire
      BY <2>7
    <3>2. acceptor.at = "accepted" => consumer'[acceptor.fd] # "out"
      BY <1>0, <2>7 DEF ListedOnce
    <3> QED
      BY <1>0, <2>8, <3>1, <3>2 DEF ListedOnce
  <2> QED
    BY <2>9, <2>10, <2>11 DEF ListedOnce
<1>4. ASSUME NEW c \in Consumers, Accept(c) PROVE ListedOnce'
  BY <1>0, <1>4 DEF Accept, ListedOnce, Listed
<1>5. ASSUME AcceptFails PROVE ListedOnce'
  BY <1>0, <1>5 DEF AcceptFails, ListedOnce, Listed, TypeOK
<1>6. ASSUME Admit PROVE ListedOnce'
  <2> DEFINE new == acceptor.fd
  <2>1. /\ new \in Consumers /\ wire[new] = <<>> /\ ~ Listed(new)
        /\ clients' = Append(clients, new) /\ acceptor'.at # "accepted"
        /\ UNCHANGED wire /\ clients \in Seq(Consumers)
    BY <1>0, <1>6 DEF Admit, ListedOnce, TypeOK
  <2>2. /\ DOMAIN clients' = 1 .. Len(clients) + 1 /\ DOMAIN clients = 1 .. Len(clients)
        /\ Len(clients) \in Nat /\ clients'[Len(clients) + 1] = new
        /\ \A k \in 1 .. Len(clients) : clients'[k] = clients[k]
    BY <2>1
  <2>3. /\ consumer'[new] \notin {"out", "calling"}
        /\ \A c \in Consumers : c # new => consumer'[c] = consumer[c]
    BY <1>0, <1>6, <2>1 DEF Admit, TypeOK, ListedOnce
  <2>4. \A i, k \in DOMAIN clients' : clients'[i] = clients'[k] => i = k
    BY <1>0, <2>1, <2>2 DEF ListedOnce, Listed
  <2>5. \A c \in Consumers : Listed(c)' => c = new \/ Listed(c)
    BY <2>2 DEF Listed
  <2>6. \A c \in Consumers : consumer'[c] \in {"out", "calling"} => wire'[c] = <<>> /\ ~ Listed(c)'
    BY <1>0, <2>1, <2>3, <2>5 DEF ListedOnce
  <2> QED
    BY <2>1, <2>4, <2>6 DEF ListedOnce, Listed
<1>7. ASSUME NEW c \in Consumers, NEW from, NEW to \in Doings \ {"out"},
             Become(c, from, to), to = "calling" => from = {"out"}
      PROVE  ListedOnce'
  <2>1. /\ UNCHANGED <<clients, wire, acceptor>> /\ consumer[c] \in from
        /\ \A d \in Consumers : consumer'[d] = IF d = c THEN to ELSE consumer[d]
    BY <1>0, <1>7 DEF Become, TypeOK, sinkVars
  <2>2. \A d \in Consumers : consumer'[d] \in {"out", "calling"} => consumer[d] \in {"out", "calling"}
    BY <1>7, <2>1
  <2> QED
    BY <1>0, <1>7, <2>1, <2>2 DEF ListedOnce, Listed
<1>8. ASSUME CloseAll PROVE ListedOnce'
  <2>1. /\ clients' = <<>> /\ UNCHANGED <<wire, acceptor>> /\ acceptor.at = "ended"
        /\ \A c \in Consumers : consumer'[c] = consumer[c] \/ consumer'[c] = "closed"
    BY <1>8 DEF CloseAll
  <2> QED
    BY <1>0, <2>1 DEF ListedOnce, Listed
<1>9. ASSUME NEW c \in Consumers, Connect(c) \/ Stall(c) \/ Vanish(c) PROVE ListedOnce'
  <2>1. \/ Become(c, {"out"}, "calling") \/ Become(c, {"reading"}, "stalled")
        \/ Become(c, {"reading", "stalled", "calling"}, "gone")
    BY <1>9 DEF Connect, Stall, Vanish
  <2> QED
    BY <1>7, <2>1 DEF Doings
<1>10. ASSUME NEW j \in Jobs, Offer(j) \/ Take(j) \/ Analyse(j, TRUE) \/ Analyse(j, FALSE) \/ Ask(j)
                              \/ Publish(j) \/ Published(j)
       PROVE  ListedOnce'
  BY <1>1, <1>10 DEF Offer, Take, Analyse, Ask, Publish, Published, sinkVars
<1>11. ASSUME StopAi \/ StopSinks \/ \E j \in Jobs : ShutDown(j) PROVE ListedOnce'
  BY <1>1, <1>11 DEF StopAi, StopSinks, ShutDown, sinkVars
<1>12. CASE UNCHANGED vars
  BY <1>1, <1>12 DEF vars, sinkVars
<1> QED
  BY <1>2, <1>3, <1>4, <1>5, <1>6, <1>8, <1>9, <1>10, <1>11, <1>12 DEF Next, Work, Accepting, Shutdown

-----------------------------------------------------------------------------
(* One more piece follows those before it, and is the last.                *)
LEMMA OneMorePiece ==
  ASSUME NEW got \in Seq(WirePiece), NEW p \in WirePiece,
         \A n \in DOMAIN got : Follows(got, n),
         IF p.piece > 1
         THEN got # <<>> /\ got[Len(got)].piece = p.piece - 1 /\ got[Len(got)].rec = p.rec
         ELSE EndsWhole(got)
  PROVE  LET more == Append(got, p)
         IN  /\ more # <<>> /\ more[Len(more)] = p
             /\ \A n \in DOMAIN more : Follows(more, n)
<1> DEFINE more == Append(got, p)  k == Len(got)
<1>1. /\ k \in Nat /\ DOMAIN got = 1 .. k /\ DOMAIN more = 1 .. k + 1 /\ Len(more) = k + 1
      /\ more[k + 1] = p /\ \A n \in 1 .. k : more[n] = got[n]
  OBVIOUS
<1> HIDE DEF more, k
<1>2. p.piece \in 1 .. Pieces /\ Pieces \in Nat
  BY ResultAssumption DEF WirePiece
<1>3. ASSUME NEW n \in 1 .. k PROVE Follows(more, n)
  <2>1. Follows(got, n) /\ more[n] = got[n] /\ (n # 1 => more[n - 1] = got[n - 1])
    BY <1>1
  <2> QED
    BY <2>1 DEF Follows
<1>4. Follows(more, k + 1)
  <2>1. CASE k = 0
    BY <1>1, <1>2, <2>1 DEF Follows
  <2>2. CASE k > 0
    <3>1. k \in 1 .. k /\ (k + 1) - 1 = k /\ k + 1 # 1
      BY <1>1, <2>2
    <3>4. more[(k + 1) - 1] = got[k] /\ got # <<>> /\ Len(got) = k
      BY <1>1, <2>2, <3>1 DEF k
    <3>2. CASE p.piece > 1
      BY <1>1, <1>2, <3>1, <3>4, <3>2 DEF Follows
    <3>3. CASE p.piece = 1
      BY <1>1, <1>2, <3>1, <3>4, <3>3 DEF Follows, EndsWhole
    <3> QED
      BY <1>2, <3>2, <3>3
  <2> QED
    BY <1>1, <2>1, <2>2
<1>5. \A n \in DOMAIN more : Follows(more, n)
  <2>1. \A n \in 1 .. k + 1 : n \in 1 .. k \/ n = k + 1
    BY <1>1
  <2> QED
    BY <1>1, <1>3, <1>4, <2>1
<1>6. more # <<>> /\ more[Len(more)] = p
  BY <1>1, 1 \in 1 .. k + 1
<1> QED
  BY <1>5, <1>6 DEF more

-----------------------------------------------------------------------------
LEMMA AsFarAsSendingStep == IInv /\ [Next]_vars => AsFarAsSending'
<1> SUFFICES ASSUME IInv, [Next]_vars PROVE AsFarAsSending'
  OBVIOUS
<1>0. TypeOK /\ ListedOnce /\ AsFarAsSending
  BY DEF IInv
<1> DEFINE Right(got) == \A n \in DOMAIN got : Follows(got, n)
<1>1. /\ Pieces \in Nat \ {0} /\ clients \in Seq(Consumers) /\ DOMAIN clients = 1 .. Len(clients)
      /\ Len(clients) \in Nat /\ \A i \in DOMAIN clients : clients[i] \in Consumers
  BY <1>0, ResultAssumption DEF TypeOK
<1>2. ASSUME UNCHANGED <<clients, wire, lock, sending>> PROVE AsFarAsSending'
  BY <1>0, <1>2 DEF AsFarAsSending, Begun, EndsWhole, Follows
<1>3. ASSUME NEW j \in Jobs, Publish(j) PROVE AsFarAsSending'
  <2>1. CASE clients = <<>>
    BY <1>2, <1>3, <2>1 DEF Publish
  <2>2. CASE clients # <<>>
    <3>1. /\ lock = Nobody /\ sending'.to = 1 /\ sending'.piece = 1 /\ UNCHANGED <<clients, wire>>
      BY <1>3, <2>2 DEF Publish
    <3>2. 1 \in 1 .. Len(clients) + 1 /\ 1 \in 1 .. Pieces
      BY <1>1
    <3>3. \A i \in DOMAIN clients : Right(wire[clients[i]]) /\ EndsWhole(wire[clients[i]])
      BY <1>0, <3>1 DEF AsFarAsSending
    <3> QED
      BY <3>1, <3>2, <3>3 DEF AsFarAsSending, EndsWhole, Follows
  <2> QED
    BY <2>1, <2>2
<1>4. ASSUME NEW j \in Jobs, Sent(j) PROVE AsFarAsSending'
  <2>1. lock # Nobody /\ sending.to <= Len(clients) /\ UNCHANGED <<clients, lock>>
    BY <1>4, ResultAssumption DEF Sent
  <2> DEFINE to == sending.to  got == wire[Target]
             p  == [rec |-> sending.rec, piece |-> sending.piece]  more == Append(got, p)
  <2>2. /\ to \in 1 .. Len(clients) /\ to \in DOMAIN clients /\ Target = clients[to]
        /\ Target \in Consumers /\ sending.piece \in 1 .. Pieces /\ got \in Seq(WirePiece)
    BY <2>1, TargetOK DEF Target
  <2>3. p \in WirePiece /\ p.piece = sending.piece /\ p.rec = sending.rec
    BY <1>0, <2>2 DEF WirePiece, TypeOK
  <2>4. /\ \A n \in DOMAIN got : Follows(got, n)
        /\ IF sending.piece > 1 THEN Begun(got) ELSE EndsWhole(got)
    BY <1>0, <2>1, <2>2 DEF AsFarAsSending
  <2>5. more # <<>> /\ more[Len(more)] = p /\ \A n \in DOMAIN more : Follows(more, n)
    <3> HIDE DEF p, got
    <3>1. IF p.piece > 1
          THEN got # <<>> /\ got[Len(got)].piece = p.piece - 1 /\ got[Len(got)].rec = p.rec
          ELSE EndsWhole(got)
      BY <2>3, <2>4 DEF Begun
    <3> QED
      BY <2>2, <2>3, <2>4, <3>1, OneMorePiece
  <2>6. /\ wire'[Target] = more
        /\ \A c \in Consumers : c # Target => wire'[c] = wire[c]
    BY <1>0, <1>4, <2>2 DEF Sent, TypeOK
  <2>7. \/ /\ sending.piece < Pieces /\ sending'.piece = sending.piece + 1
           /\ sending'.to = to /\ sending'.rec = sending.rec
        \/ sending.piece = Pieces /\ sending'.piece = 1 /\ sending'.to = to + 1
    BY <1>0, <1>1, <1>4, <2>2 DEF Sent, TypeOK
  <2>8. sending'.to \in 1 .. Len(clients) + 1 /\ sending'.piece \in 1 .. Pieces
    BY <1>1, <2>2, <2>7
  <2> HIDE DEF more, p, got, to
  <2>9. ASSUME NEW i \in DOMAIN clients, i # to
        PROVE  /\ \A n \in DOMAIN wire'[clients[i]] : Follows(wire'[clients[i]], n)
               /\ EndsWhole(wire'[clients[i]]) /\ ~ (sending'.to = i /\ sending'.piece > 1)
    <3>1. clients[i] # Target /\ clients[i] \in Consumers
      BY <1>0, <1>1, <2>2, <2>9 DEF ListedOnce
    <3>2. wire'[clients[i]] = wire[clients[i]]
      BY <2>6, <3>1
    <3>3. Right(wire[clients[i]]) /\ EndsWhole(wire[clients[i]])
      BY <1>0, <2>9 DEF AsFarAsSending, to
    <3>4. ~ (sending'.to = i /\ sending'.piece > 1)
      BY <2>7, <2>9
    <3> QED
      BY <3>2, <3>3, <3>4
  <2>10. IF sending'.to = to /\ sending'.piece > 1
         THEN more # <<>> /\ more[Len(more)].piece = sending'.piece - 1
                          /\ more[Len(more)].rec = sending'.rec
         ELSE EndsWhole(more)
    <3>1. CASE sending.piece < Pieces
      <4>1. /\ sending'.to = to /\ sending'.piece - 1 = sending.piece
            /\ sending'.rec = sending.rec /\ sending'.piece > 1
        BY <1>1, <2>2, <2>7, <3>1
      <4> QED
        BY <2>3, <2>5, <4>1
    <3>2. CASE sending.piece = Pieces
      <4>1. sending'.to # to
        BY <1>1, <2>2, <2>7, <3>2
      <4> QED
        BY <2>3, <2>5, <3>2, <4>1 DEF EndsWhole
    <3> QED
      BY <1>1, <2>2, <3>1, <3>2
  <2>11. clients' = clients /\ lock' = lock
    BY <2>1
  <2>12. ASSUME NEW i \in DOMAIN clients
         PROVE  /\ \A n \in DOMAIN wire'[clients[i]] : Follows(wire'[clients[i]], n)
                /\ IF lock' # Nobody /\ sending'.to = i /\ sending'.piece > 1
                   THEN /\ wire'[clients[i]] # <<>>
                        /\ wire'[clients[i]][Len(wire'[clients[i]])].piece = sending'.piece - 1
                        /\ wire'[clients[i]][Len(wire'[clients[i]])].rec = sending'.rec
                   ELSE EndsWhole(wire'[clients[i]])
    <3>1. CASE i = to
      <4>1. wire'[clients[i]] = more
        BY <2>2, <2>6, <3>1
      <4> QED
        BY <2>1, <2>5, <2>10, <2>11, <3>1, <4>1
    <3>2. CASE i # to
      BY <2>9, <3>2
    <3> QED
      BY <3>1, <3>2
  <2> QED
    BY <2>8, <2>11, <2>12 DEF AsFarAsSending, Begun, EndsWhole, Follows
<1>5. ASSUME NEW j \in Jobs, SendFails(j) PROVE AsFarAsSending'
  <2>1. lock # Nobody /\ sending.to <= Len(clients) /\ UNCHANGED <<wire, lock>>
    BY <1>5, ResultAssumption DEF SendFails
  <2>2. sending.to \in 1 .. Len(clients)
    BY <2>1, TargetOK
  <2>3. sending'.to = sending.to /\ sending'.piece = 1
    BY <1>0, <1>5 DEF SendFails, FollowingErased, TypeOK
  <2>4. /\ Len(clients') = Len(clients) - 1 /\ clients' \in Seq(Consumers)
        /\ \A k \in 1 .. Len(clients) - 1 :
             clients'[k] = IF k < sending.to THEN clients[k] ELSE clients[k + 1]
    BY <1>1, <1>5, <2>2, WithoutOne DEF SendFails, Without
  <2>5. ASSUME NEW k \in DOMAIN clients' PROVE Right(wire[clients'[k]]) /\ EndsWhole(wire[clients'[k]])
    <3>1. PICK i \in DOMAIN clients : clients'[k] = clients[i] /\ i # sending.to
      <4>1. k \in 1 .. Len(clients) - 1
        BY <2>4
      <4>2. CASE k < sending.to
        BY <1>1, <2>4, <4>1, <4>2
      <4>3. CASE ~ k < sending.to
        <5>1. k + 1 \in DOMAIN clients /\ k + 1 # sending.to
          BY <1>1, <2>2, <4>1, <4>3
        <5> QED
          BY <2>4, <4>1, <4>3, <5>1
      <4> QED
        BY <4>2, <4>3
    <3> QED
      BY <1>0, <3>1 DEF AsFarAsSending
  <2>6. sending'.to \in 1 .. Len(clients') + 1 /\ sending'.piece \in 1 .. Pieces
    BY <1>1, <2>2, <2>3, <2>4
  <2>7. ASSUME NEW k \in DOMAIN clients'
        PROVE  /\ \A n \in DOMAIN wire'[clients'[k]] : Follows(wire'[clients'[k]], n)
               /\ EndsWhole(wire'[clients'[k]]) /\ ~ sending'.piece > 1
    BY <2>1, <2>3, <2>5
  <2> QED
    BY <2>6, <2>7 DEF AsFarAsSending, EndsWhole, Follows
<1>6. ASSUME NEW j \in Jobs, Published(j) PROVE AsFarAsSending'
  <2>1. /\ lock # Nobody /\ lock' = Nobody /\ UNCHANGED <<clients, wire>>
        /\ sending.to > Len(clients)
    BY <1>6, ResultAssumption DEF Published
  <2>2. \A i \in DOMAIN clients : sending.to # i
    BY <1>0, <1>1, <2>1 DEF TypeOK
  <2>3. \A i \in DOMAIN clients : Right(wire[clients[i]]) /\ EndsWhole(wire[clients[i]])
    BY <1>0, <2>1, <2>2 DEF AsFarAsSending
  <2> QED
    BY <2>1, <2>3 DEF AsFarAsSending, EndsWhole, Follows
<1>7. ASSUME Admit PROVE AsFarAsSending'
  <2> DEFINE new == acceptor.fd
  <2>1. /\ lock = Nobody /\ lock' = Nobody /\ UNCHANGED wire
        /\ new \in Consumers /\ wire[new] = <<>> /\ clients' = Append(clients, new)
    BY <1>0, <1>7 DEF Admit, ListedOnce
  <2>2. ASSUME NEW k \in DOMAIN clients' PROVE Right(wire[clients'[k]]) /\ EndsWhole(wire[clients'[k]])
    <3>1. clients'[k] = new \/ (k \in DOMAIN clients /\ clients'[k] = clients[k])
      <4> HIDE DEF new
      <4>1. /\ DOMAIN clients' = 1 .. Len(clients) + 1
            /\ Append(clients, new)[Len(clients) + 1] = new
            /\ \A m \in 1 .. Len(clients) : Append(clients, new)[m] = clients[m]
        BY <1>1, <2>1
      <4> QED
        BY <1>1, <2>1, <4>1
    <3>2. Right(<<>>) /\ EndsWhole(<<>>)
      BY DEF EndsWhole
    <3> QED
      BY <1>0, <2>1, <3>1, <3>2 DEF AsFarAsSending
  <2>3. ASSUME NEW k \in DOMAIN clients'
        PROVE  /\ \A n \in DOMAIN wire'[clients'[k]] : Follows(wire'[clients'[k]], n)
               /\ EndsWhole(wire'[clients'[k]])
    BY <2>1, <2>2
  <2> QED
    BY <2>1, <2>3 DEF AsFarAsSending, EndsWhole, Follows
<1>8. ASSUME CloseAll PROVE AsFarAsSending'
  <2>1. clients' = <<>> /\ lock' = Nobody
    BY <1>8 DEF CloseAll
  <2> QED
    BY <2>1 DEF AsFarAsSending
<1>9. ASSUME NEW j \in Jobs, Offer(j) \/ Take(j) \/ Analyse(j, TRUE) \/ Analyse(j, FALSE) \/ Ask(j)
      PROVE  AsFarAsSending'
  BY <1>2, <1>9 DEF Offer, Take, Analyse, Ask, sinkVars
<1>10. ASSUME NEW c \in Consumers, Accept(c) \/ Connect(c) \/ Stall(c) \/ Vanish(c)
       PROVE  AsFarAsSending'
  BY <1>2, <1>10 DEF Accept, Connect, Stall, Vanish, Become, sinkVars
<1>11. ASSUME AcceptFails \/ StopAi \/ StopSinks \/ \E j \in Jobs : ShutDown(j)
       PROVE  AsFarAsSending'
  BY <1>2, <1>11 DEF AcceptFails, StopAi, StopSinks, ShutDown, sinkVars
<1>12. CASE UNCHANGED vars
  BY <1>2, <1>12 DEF vars, sinkVars
<1> QED
  BY <1>3, <1>4, <1>5, <1>6, <1>7, <1>8, <1>9, <1>10, <1>11, <1>12 DEF Next, Work, Accepting, Shutdown

-----------------------------------------------------------------------------
LEMMA ResultInductive == Spec => []IInv
<1>1. Init => IInv
  BY InitOK
<1>2. IInv /\ [Next]_vars => IInv'
  BY TypeStep, OneSendsStep, ListedOnceStep, AsFarAsSendingStep DEF IInv
<1> QED
  BY <1>1, <1>2, PTL DEF Spec

(* The variables of workers, sink and consumers keep their types.          *)
THEOREM ResultTypeCorrect == Spec => []TypeOK
<1>1. IInv => TypeOK
  BY DEF IInv
<1> QED
  BY <1>1, ResultInductive, PTL

(* publish(): whoever is on the list has whole records, one after another, *)
(* but for the one that is being sent to.                                  *)
THEOREM ResultWholeRecords == Spec => []WholeRecords
<1>1. IInv => WholeRecords
  <2> SUFFICES ASSUME IInv, NEW i \in DOMAIN clients
               PROVE  LET got == wire[clients[i]]
                      IN  /\ \A n \in DOMAIN got : Follows(got, n)
                          /\ ~ EndsWhole(got) => /\ lock # Nobody /\ sending.to = i
                                             /\ sending.piece = got[Len(got)].piece + 1
    BY DEF WholeRecords
  <2> DEFINE got == wire[clients[i]]
  <2>1. /\ \A n \in DOMAIN got : Follows(got, n)
        /\ IF lock # Nobody /\ sending.to = i /\ sending.piece > 1 THEN Begun(got) ELSE EndsWhole(got)
    BY DEF IInv, AsFarAsSending
  <2>2. sending.piece \in Int
    BY ResultAssumption DEF IInv, TypeOK
  <2>3. /\ clients[i] \in Consumers /\ got \in Seq(WirePiece)
        /\ got # <<>> => got[Len(got)].piece \in Int
    <3>1. clients[i] \in Consumers /\ got \in Seq(WirePiece)
      BY DEF IInv, TypeOK
    <3> HIDE DEF got
    <3>2. got # <<>> => got[Len(got)] \in WirePiece
      BY <3>1
    <3>3. \A piece \in WirePiece : piece.piece \in Int
      BY ResultAssumption DEF WirePiece
    <3> QED
      BY <3>1, <3>2, <3>3
  <2>4. Begun(got) => sending.piece = got[Len(got)].piece + 1
    BY <2>2, <2>3 DEF Begun
  <2> QED
    BY <2>1, <2>4
<1> QED
  BY <1>1, ResultInductive, PTL

(* stop(): a closed sink is not written to, and while it closes nobody     *)
(* whom AiRuntime::stop() found in its table writes, as a worker that was  *)
(* joined does not send.                                                   *)
THEOREM ResultStoppedIsSilent == Spec => StoppedIsSilent
<1>1. IInv /\ [Next]_vars => [(phase \in {"sinks", "down"} /\ wire' # wire
                                => phase = "sinks" /\ running[lock] = "on")]_vars
  <2> SUFFICES ASSUME IInv, Next, phase \in {"sinks", "down"}, wire' # wire
               PROVE  phase = "sinks" /\ running[lock] = "on"
    OBVIOUS
  <2>1. PICK j \in Jobs : Sent(j)
    BY DEF Next, Work, Offer, Take, Analyse, Ask, Publish, SendFails, Published, Accepting,
           Accept, AcceptFails, Admit, Connect, Stall, Vanish, Become, StopAi, ShutDown, Shutdown,
           StopSinks, CloseAll
  <2>2. lock = j /\ lock # Nobody /\ sending.to <= Len(clients)
    BY <2>1, ResultAssumption DEF Sent
  <2>3. running[j] = "on"
    BY <2>2 DEF IInv, OneSends
  <2>4. phase # "down"
    <3>1. clients # <<>>
      BY <2>2, TargetOK
    <3> QED
      BY <3>1 DEF IInv, OneSends
  <2> QED
    BY <2>2, <2>3, <2>4
<1> QED
  BY <1>1, ResultInductive, PTL DEF Spec, StoppedIsSilent
=============================================================================
