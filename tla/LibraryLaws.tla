----------------------------- MODULE LibraryLaws -----------------------------
(***************************************************************************)
(* What Library promises, over all small inputs, each stated without the   *)
(* code's way of computing it.  TLC evaluates these assumptions before it  *)
(* explores the run whose module extends this one.                         *)
(***************************************************************************)
LOCAL INSTANCE Integers
LOCAL INSTANCE Sequences
LOCAL INSTANCE FiniteSets
LOCAL INSTANCE SequencesExt
LOCAL INSTANCE FiniteSetsExt
LOCAL INSTANCE TLC
Memory   == INSTANCE Library WITH Postgres <- FALSE, Day <- 4, Second <- 2, IntWidth <- 3
Database == INSTANCE Library WITH Postgres <- TRUE, Day <- 4, Second <- 2, IntWidth <- 3

(* A file opened and closed: what a recorder writes about it twice.        *)
File(path, start, end, status, motion, event, session) ==
  [camera |-> "c", path |-> path, start |-> start, end |-> end, duration |-> end - start,
   format |-> "h264", motion |-> motion, event |-> event, status |-> status, session |-> session]

-----------------------------------------------------------------------------
(* The stores.                                                             *)

(* What a recorder and a motion recorder write, in any order: a file's     *)
(* start, camera and session never change, an event is closed after it     *)
(* began.                                                                  *)
Writes ==
  {<<"upsert", row>> : row \in {File("p", 2, 2, "recording", FALSE, 0, 1), File("p", 2, 4, "complete", TRUE, 0, 1),
                                File("p", 2, 4, "complete", FALSE, 7, 1), File("q", 4, 7, "complete", FALSE, 0, 1),
                                File("", 4, 7, "complete", FALSE, 0, 1)}}
  \cup {<<"remove", ids>> : ids \in SUBSET {1, 2}}
Nothing == [i \in {} |-> i]
RECURSIVE InMemory(_, _), InDatabase(_, _)
InMemory(writes, n) ==
  IF n = 0 THEN Nothing
  ELSE LET store == InMemory(writes, n - 1)
       IN  IF writes[n][1] = "upsert" THEN Memory!UpsertSegment(store, writes[n][2], n).segments
           ELSE Memory!RemoveSegments(store, writes[n][2])
InDatabase(writes, n) ==
  IF n = 0 THEN Nothing
  ELSE LET store == InDatabase(writes, n - 1)
       IN  IF writes[n][1] = "upsert" THEN Database!UpsertSegment(store, writes[n][2], n).segments
           ELSE Database!RemoveSegments(store, writes[n][2])
Histories(n) == UNION {[1 .. k -> Writes] : k \in 0 .. n}

(* Tests run against the store in memory, deployments against PostgreSQL:  *)
(* after the same writes of a recorder both hold the same rows, one for a  *)
(* file at most; once a file is known to have motion in it, or an event,   *)
(* that stays until the file is removed; and a write that is made again    *)
(* changes nothing.                                                        *)
ASSUME StoresAgree ==
  \A writes \in Histories(4) :
    LET n == Len(writes)
        store == InMemory(writes, n)
    IN  /\ store = InDatabase(writes, n)
        /\ \A i, j \in DOMAIN store : store[i].path = store[j].path => i = j
        /\ n > 0 /\ writes[n][1] = "upsert" =>
             LET before == InMemory(writes, n - 1)
             IN  /\ \A i \in DOMAIN before : /\ before[i].motion => store[i].motion
                                             /\ before[i].event # 0 => store[i].event # 0
                 /\ writes[n][2].path # "" =>
                      Memory!UpsertSegment(store, writes[n][2], n + 1).segments = store

(* They part where a row says something else of the same file: PostgreSQL  *)
(* keeps what was said first, the store in memory what was said last.      *)
ASSUME StoresDifferOnRewrites ==
  LET other == [File("p", 3, 5, "complete", FALSE, 0, 9) EXCEPT !.camera = "d"]
      first == 1 :> File("p", 2, 2, "recording", FALSE, 0, 1)
  IN  /\ Memory!UpsertSegment(first, other, 2).segments[1].camera = "d"
      /\ Database!UpsertSegment(first, other, 2).segments[1].camera = "c"

(* An event is in every window it is happening in, open or closed, in both *)
(* stores, and reads the same.                                             *)
Event(start, end) == [camera |-> "c", start |-> start, end |-> end, score |-> 1, cells |-> {}, image |-> ""]
ASSUME EventsAgree ==
  \A start \in 1 .. 3, end \in 1 .. 4, from \in 0 .. 3, to \in 1 .. 4 :
    LET memory   == Memory!InsertMotionEvent(Nothing, Event(start, 0), 1)
        database == Database!InsertMotionEvent(Nothing, Event(start, 0), 1)
        shut     == Memory!CloseMotionEvent(memory, 1, end, 5, {1}).events
        shutThere == Database!CloseMotionEvent(database, 1, end, 5, {1}).events
    IN  from < to =>
          /\ Memory!MotionEventsInRange(memory, "c", from, to)
               = (IF start < to THEN {<<1>>} ELSE {<<>>})
          /\ Database!MotionEventsInRange(database, "c", from, to)
               = Memory!MotionEventsInRange(memory, "c", from, to)
          /\ Memory!MotionEventOf(memory, 1) = Database!MotionEventOf(database, 1)
          /\ Database!MotionEventsInRange(shutThere, "c", from, to)
               = Memory!MotionEventsInRange(shut, "c", from, to)
          /\ Memory!MotionEventOf(shut, 1) = Database!MotionEventOf(shutThere, 1)

(* Closing an event that is gone is an error in memory and none in the     *)
(* database.                                                               *)
ASSUME ClosingNothing ==
  /\ ~ Memory!CloseMotionEvent(Nothing, 1, 2, 5, {}).answer.ok
  /\ Database!CloseMotionEvent(Nothing, 1, 2, 5, {}).answer.ok

(* A job that was removed stays so if its edit comes late, and a camera's  *)
(* jobs are listed in the order they were created in.                      *)
ASSUME JobsStayRemoved ==
  \A cameras \in [1 .. 3 -> {"c", "d"}], gone \in 1 .. 3 :
    LET Job(i)  == [camera |-> cameras[i], name |-> "", enabled |-> TRUE, fps |-> 0, stages |-> <<>>]
        all     == Memory!InsertJob(Memory!InsertJob(Memory!InsertJob(Nothing, Job(1), 1), Job(2), 2), Job(3), 3)
        left    == Memory!UpdateJob(Memory!RemoveJob(all, gone), Job(gone), gone)
    IN  /\ ~ Memory!JobOf(left, gone).ok
        /\ Memory!JobsOf(left, {"c"}) = SelectSeq(<<1, 2, 3>>, LAMBDA i : i # gone /\ cameras[i] = "c")

(* An integer reads as itself whatever the width of its column, as long as *)
(* an int can hold it; a boolean does unless it is wider than a byte.      *)
ASSUME WidthsDoNotMatter ==
  \A type \in {"Int8", "Int16", "Int32", "Int64"}, n \in -4 .. 3 :
    /\ Database!AsInteger([type |-> type, value |-> n]) = n
    /\ Database!AsBoolean([type |-> type, value |-> n]) = (type = "Int8" /\ n # 0)

-----------------------------------------------------------------------------
(* What is found.                                                          *)

(* Up to three files of one camera, one after the other or overlapping.    *)
Footage == {File("p", start, start + length, status, FALSE, 0, session) :
           start \in {0, 2, 6}, length \in 1 .. 3, status \in {"complete", "recording"}, session \in 1 .. 2}
Stores == UNION {[1 .. n -> Footage] : n \in 0 .. 2}
World(rows) == [cameras |-> {"c"}, segments |-> rows, events |-> Nothing, disk |-> <<>>, now |-> 6, extracts |-> TRUE]

(* Every instant of a window that was recorded is in what is listed for    *)
(* it, in order; a file that ends where the window begins is not.          *)
ASSUME WindowIsListed ==
  \A rows \in Stores, from \in 0 .. 6, to \in 1 .. 7 :
    from < to =>
      LET listed == Memory!SegmentsInRange(rows, "c", from, to)
      IN  /\ Range(listed) = {i \in DOMAIN rows : \E t \in from .. to - 1 : rows[i].start <= t /\ t < rows[i].end}
          /\ \A i, j \in DOMAIN listed : i < j => rows[listed[i]].start <= rows[listed[j]].start
          /\ Len(listed) = Cardinality(Range(listed))

(* A seek lands on the instant if a finished file within a day has it and  *)
(* otherwise on the very next one; the offset is inside the file.  It says *)
(* that there is nothing exactly if there is nothing within a day.         *)
ASSUME SeekIsExact ==
  \A rows \in Stores, at \in 0 .. 8 :
    LET answer == Memory!Seek(World(rows), "c", at)
        done   == {i \in DOMAIN rows : rows[i].status = "complete"}
        having == {i \in done : rows[i].start <= at /\ at < rows[i].end}
        later  == {i \in done : at < rows[i].start /\ rows[i].start < at + 4}
    IN  /\ answer.ok = (having \cup later # {})
        /\ answer.ok =>
             /\ answer.value.offset \in 0 .. answer.value.segment.duration - 1
             /\ having # {} => answer.value.segment.start + answer.value.offset = at
             /\ having = {} => /\ answer.value.segment.start = Min({rows[i].start : i \in later})
                               /\ answer.value.offset = 0

(* The latest is a finished file that started last, if one ended within    *)
(* the last day, and a moment inside it.                                   *)
ASSUME LatestIsNewest ==
  \A rows \in Stores, now \in 6 .. 12 :
    LET answer == Memory!Latest([World(rows) EXCEPT !.now = now], "c")
        done   == {i \in DOMAIN rows : rows[i].status = "complete" /\ rows[i].end > now - 4}
    IN  /\ answer.ok = (done # {})
        /\ answer.ok => /\ answer.value.segment.start = Max({rows[i].start : i \in done})
                        /\ answer.value.offset \in 0 .. answer.value.segment.duration - 1

(* No entry of a playlist is longer than it says its longest is, and an    *)
(* entry follows another without a break only in the same session and      *)
(* within two seconds of it.                                               *)
ASSUME PlaylistIsPlayable ==
  \A rows \in Stores :
    LET list == Memory!Playlist(World(rows), "c", 0, 9).value
        At(i) == CHOOSE r \in Range(rows) : r.start = list.entries[i].start /\ r.end = r.start + list.entries[i].length
    IN  /\ Len(list.entries) = Cardinality({i \in DOMAIN rows : rows[i].status = "complete"})
        /\ \A i \in DOMAIN list.entries :
             /\ list.entries[i].length <= list.target * 2
             /\ (i > 1 /\ Cardinality({r.session : r \in Range(rows)}) = 2) => list.entries[i].discontinuity
             /\ (i > 1 /\ ~ list.entries[i].discontinuity) => At(i).start - At(i - 1).end <= 4

(* Nothing outside the directory is ever served, and nothing that is gone. *)
ASSUME OnlyWhatIsUnder ==
  LET disk  == (<<"rec", "c", "a">> :> 3) @@ (<<"etc", "a">> :> 4)
      world == [World(<<>>) EXCEPT !.disk = disk]
  IN  \A path \in UNION {[1 .. n -> {"rec", "etc", "c", "a"}] : n \in 0 .. 3} :
        LET file == Memory!ResolveUnder(world, <<"rec">>, path)
        IN  file.ok = (path = <<"rec", "c", "a">>)

-----------------------------------------------------------------------------
(* The requests.                                                           *)
Ranges == {<<>>} \cup [first : {-1, -2} \cup 0 .. 5, last : {-1, -2} \cup 0 .. 5]
Bytes(n) == [i \in 1 .. n |-> i]

(* A player is sent exactly the bytes the answer names, never none with a  *)
(* 206, and the whole file if it asked for nothing that makes sense; if it *)
(* is refused, no byte of what it asked for exists.                        *)
ASSUME RangesAreExact ==
  \A size \in 0 .. 4, range \in Ranges :
    LET answer == Memory!Served(range, size, Bytes(size))
        asked  == IF range.first = -1 THEN {i \in 0 .. size - 1 : i >= size - range.last}
                  ELSE {i \in 0 .. size - 1 : i >= range.first /\ (range.last = -1 \/ i <= range.last)}
    IN  /\ answer.status = 206 =>
             /\ answer.body # <<>>
             /\ {b - 1 : b \in Range(answer.body)} = asked
             /\ asked = answer.says[1] .. answer.says[2]
        /\ answer.status = 200 => answer.body = Bytes(size)
        /\ answer.status = 416 => asked = {}

(* A window that is asked for ends after it begins, or is refused later;   *)
(* one that is not is the last day; a width is one a board can afford.     *)
ASSUME DefaultsAreSane ==
  /\ Memory!AskedWindow(-1, -1, 9) = Memory!Ok([from |-> 5, to |-> 9])
  /\ \A from \in {-2, -1} \cup 0 .. 9, to \in {-2, -1} \cup 0 .. 9 :
       Memory!AskedWindow(from, to, 9).ok = ({-2, 0} \cap {from, to} = {})
  /\ \A w \in {-2, -1, 0, 10, 100, 700}, width \in {-2, -1, 0, 300} :
       Memory!ThumbnailWidth(w, width) \in 48 .. 640
=============================================================================
