------------------------------- MODULE Library -------------------------------
(***************************************************************************)
(* What was recorded and how it is found again: the rows of the two stores *)
(* (in memory, PostgreSQL), media/recording/Recording, HlsPlaylist and     *)
(* PlaybackService, and what api/controllers/PlaybackController makes of a *)
(* request.                                                                *)
(*                                                                         *)
(* A segment's row is [camera, path, start, end, duration, format, motion, *)
(* event, status, session], format standing for what is only carried along *)
(* (codec, container, mode); an event's is [camera, start, end, score,     *)
(* cells, image]; both are functions of the id.  An answer is Ok or        *)
(* Refused; a database that cannot be reached is not modelled.             *)
(***************************************************************************)
EXTENDS Integers, Sequences, FiniteSets, TLC
LOCAL INSTANCE SequencesExt
LOCAL INSTANCE FiniteSetsExt

CONSTANTS Postgres,     \* which of the two stores holds the rows
          Day,          \* 24 hours, completeAround's kWindowMs
          Second,       \* how many ticks of this model a second has
          IntWidth      \* the bits of an int

Ok(value)    == [ok |-> TRUE, value |-> value]
Refused(why) == [ok |-> FALSE, value |-> why]

(* RowReader.  A cell is [type, value]; a column of the wrong type reads   *)
(* like one that is NULL, as the default.                                  *)
Narrow(n)       == LET half == 2 ^ (IntWidth - 1) IN ((n + half) % (2 * half)) - half
AsText(cell)    == IF cell.type = "String" THEN cell.value ELSE ""
AsBigint(cell)  == IF cell.type \in {"Int8", "Int16", "Int32", "Int64"} THEN cell.value ELSE 0
AsInteger(cell) == Narrow(AsBigint(cell))
AsReal(cell)    == IF cell.type \in {"Float32", "Float64"} THEN cell.value ELSE 0
AsBoolean(cell) ==
  \/ cell.type = "Boolean" /\ cell.value
  \/ cell.type = "Int8" /\ cell.value # 0

-----------------------------------------------------------------------------
(* The segments.  One row per path: the message that a file was opened and *)
(* the one that it was closed share nothing else.                          *)
NoId == 0
Merged(old, new) ==
  LET kept == IF Postgres
              THEN [old EXCEPT !.end = new.end, !.duration = new.duration, !.status = new.status]
              ELSE new
  IN  [kept EXCEPT !.motion = old.motion \/ new.motion,
                   !.event = IF new.event = NoId THEN old.event ELSE new.event]

UpsertSegment(segments, new, id) ==
  LET known == {i \in DOMAIN segments : segments[i].path = new.path}
      row   == IF known = {} THEN id ELSE CHOOSE i \in known : TRUE
  IN  IF new.path = "" THEN [segments |-> segments, answer |-> Refused("InvalidArgument")]
      ELSE [segments |-> (row :> (IF known = {} THEN new ELSE Merged(segments[row], new))) @@ segments,
            answer   |-> Ok(row)]

RemoveSegments(segments, ids) == [i \in DOMAIN segments \ ids |-> segments[i]]
SegmentOf(segments, id) == IF id \in DOMAIN segments THEN Ok(segments[id]) ELSE Refused("NotFound")

Overlaps(aStart, aEnd, bStart, bEnd) == aStart < bEnd /\ bStart < aEnd

(* segmentsInRange(): by start, then by id.                                *)
SegmentsInRange(segments, camera, from, to) ==
  SetToSortSeq({i \in DOMAIN segments : segments[i].camera = camera
                                        /\ Overlaps(segments[i].start, segments[i].end, from, to)},
               LAMBDA i, j : segments[i].start < segments[j].start
                             \/ (segments[i].start = segments[j].start /\ i < j))

(* The orders an answer sorted by one column may have.                     *)
Sorted(ids, key) ==
  {s \in SetToAllKPermutations(ids) :
     Len(s) = Cardinality(ids) /\ \A i, j \in DOMAIN s : i < j => key[s[i]] <= key[s[j]]}

SegmentsEndingBefore(segments, camera, before) ==
  Sorted({i \in DOMAIN segments : segments[i].camera = camera /\ segments[i].status = "complete"
                                  /\ segments[i].end < before},
         [i \in DOMAIN segments |-> segments[i].end])

-----------------------------------------------------------------------------
(* The events.  Open is the column's NULL; the domain's is an end of 0,    *)
(* which the database turns into NULL on the way in but not in an update.  *)
Open == -1
InsertMotionEvent(events, new, id) ==
  (id :> [new EXCEPT !.end = IF Postgres /\ new.end = 0 THEN Open ELSE new.end]) @@ events
ReadEvent(row) == [row EXCEPT !.end = IF row.end = Open THEN 0 ELSE row.end]

(* An UPDATE of no row succeeds; in memory it is an error.                 *)
Written(events, id, row) ==
  IF id \in DOMAIN events THEN [events |-> [events EXCEPT ![id] = row], answer |-> Ok(id)]
  ELSE [events |-> events, answer |-> IF Postgres THEN Ok(id) ELSE Refused("NotFound")]
CloseMotionEvent(events, id, end, score, cells) ==
  Written(events, id, [events[id] EXCEPT !.end = end, !.score = score, !.cells = cells])
SetMotionEventImage(events, id, image) == Written(events, id, [events[id] EXCEPT !.image = image])

StillOpen(row) == row.end = (IF Postgres THEN Open ELSE 0)
MotionEventsInRange(events, camera, from, to) ==
  Sorted({i \in DOMAIN events :
            LET e == events[i]
            IN  e.camera = camera /\ Overlaps(e.start, IF StillOpen(e) THEN to ELSE e.end, from, to)},
         [i \in DOMAIN events |-> events[i].start])
MotionEventOf(events, id) == IF id \in DOMAIN events THEN Ok(ReadEvent(events[id])) ELSE Refused("NotFound")

(* The AI jobs, [camera, name, enabled, fps, stages]: whole rows, listed   *)
(* in the order they were created in, which in memory the ids follow.      *)
JobsOf(jobs, cameras) ==
  SetToSortSeq({i \in DOMAIN jobs : jobs[i].camera \in cameras}, LAMBDA i, j : i < j)
JobOf(jobs, id)        == IF id \in DOMAIN jobs THEN Ok(jobs[id]) ELSE Refused("NotFound")
InsertJob(jobs, job, id) == (id :> job) @@ jobs
UpdateJob(jobs, job, id) == IF id \in DOMAIN jobs THEN [jobs EXCEPT ![id] = job] ELSE jobs
RemoveJob(jobs, id)    == [i \in DOMAIN jobs \ {id} |-> jobs[i]]

-----------------------------------------------------------------------------
(* seekTo(): the first in the order of their starts that has the instant,  *)
(* or starts at it or after it.                                            *)
SeekTo(segments, listing, at) ==
  LET Has(s) == s.start <= at /\ at < s.end
      at_or_after == {i \in DOMAIN listing : Has(segments[listing[i]]) \/ segments[listing[i]].start >= at}
      found == segments[listing[Min(at_or_after)]]
  IN  IF at_or_after = {} THEN Refused("NotFound")
      ELSE Ok([segment |-> found, offset |-> IF Has(found) THEN at - found.start ELSE 0])

(* The playlist: how long the longest segment is in whole seconds, and     *)
(* which segments are told to start a new timeline.                        *)
GapTolerance == 2 * Second
NeedsDiscontinuity(previous, current) ==
  \/ previous.session # current.session
  \/ current.start - previous.end > GapTolerance
TargetDuration(rows) ==
  Max({1} \cup {(r.duration + Second - 1) \div Second : r \in {r \in Range(rows) : r.duration > 0}})
VodPlaylist(rows) ==
  [target  |-> TargetDuration(rows),
   entries |-> [i \in DOMAIN rows |->
                  [start |-> rows[i].start, length |-> Max({0, rows[i].duration}),
                   discontinuity |-> i > 1 /\ NeedsDiscontinuity(rows[i - 1], rows[i])]]]

(* PlaybackService.  The world is [cameras, segments, events, disk, now,   *)
(* extracts]; the disk gives the size of every regular file by its path,   *)
(* the names of the directories it is in with links resolved, and where    *)
(* gives the path a row's text stands for.                                 *)
Complete(world, listing) == SelectSeq(listing, LAMBDA i : world.segments[i].status = "complete")

Recordings(world, camera, from, to) ==
  IF camera \notin world.cameras THEN Refused("NotFound")
  ELSE IF to <= from THEN Refused("InvalidArgument")
  ELSE Ok(SegmentsInRange(world.segments, camera, from, to))

Playlist(world, camera, from, to) ==
  LET listed == Recordings(world, camera, from, to)
      ids    == Complete(world, listed.value)
  IN  IF ~ listed.ok THEN listed ELSE Ok(VodPlaylist([i \in DOMAIN ids |-> world.segments[ids[i]]]))

CompleteAround(world, camera, at) ==
  Complete(world, SegmentsInRange(world.segments, camera, at - Day, at + Day))

Seek(world, camera, at) ==
  IF camera \notin world.cameras THEN Refused("NotFound")
  ELSE SeekTo(world.segments, CompleteAround(world, camera, at), at)

Latest(world, camera) ==
  LET around == CompleteAround(world, camera, world.now)
      newest == world.segments[Last(around)]
  IN  IF camera \notin world.cameras \/ around = <<>> THEN Refused("NotFound")
      ELSE Ok([segment |-> newest, offset |-> Max({0, newest.duration \div 2})])

(* resolveUnder(): nothing outside the directory, and only what is there.  *)
ResolveUnder(world, base, path) ==
  IF IsPrefix(base, path) /\ path \in DOMAIN world.disk THEN Ok([path |-> path, size |-> world.disk[path]])
  ELSE Refused("NotFound")

SegmentFile(world, base, where, id) ==
  LET row == SegmentOf(world.segments, id)
  IN  IF row.ok THEN ResolveUnder(world, base, where[row.value.path]) ELSE row

MotionEvents(world, camera, from, to) ==
  IF camera \notin world.cameras THEN {Refused("NotFound")}
  ELSE IF to <= from THEN {Refused("InvalidArgument")}
  ELSE {Ok(listing) : listing \in MotionEventsInRange(world.events, camera, from, to)}

MotionEventImage(world, base, where, id) ==
  LET row == MotionEventOf(world.events, id)
  IN  IF ~ row.ok \/ row.value.image = "" THEN Refused("NotFound")
      ELSE ResolveUnder(world, base, where[row.value.image])

Thumbnail(world, base, where, camera, at) ==
  LET point == IF at > 0 THEN Seek(world, camera, at) ELSE Latest(world, camera)
      file  == ResolveUnder(world, base, where[point.value.segment.path])
  IN  IF ~ world.extracts THEN Refused("Unsupported")
      ELSE IF ~ point.ok THEN point
      ELSE IF ~ file.ok THEN file
      ELSE Ok([path |-> file.value.path, offset |-> point.value.offset])

-----------------------------------------------------------------------------
(* The requests.  A parameter is a number, Missing, or what cannot be read *)
(* as one; a Range header that is not a single range of bytes is Missing.  *)
Missing    == -1
Unreadable == -2
Given(text) == text \notin {Missing, Unreadable}

(* parseWindow(): the last day up to now, unless told otherwise; an        *)
(* instant of 0 is none.                                                   *)
AskedWindow(from, to, now) ==
  LET until == IF to = Missing THEN now ELSE to
      since == IF from = Missing THEN until - Day ELSE from
  IN  IF {Unreadable, 0} \cap {from, to} # {} THEN Refused("InvalidArgument")
      ELSE Ok([from |-> since, to |-> until])

(* The instant a seek and a thumbnail are for.                             *)
Instant(text, missing) ==
  IF text = Missing THEN Ok(missing)
  ELSE IF text \in {Unreadable, 0} THEN Refused("InvalidArgument") ELSE Ok(text)

(* The width of a preview: the first that is given, kept in its bounds.    *)
ThumbnailWidth(w, width) ==
  LET asked == IF w # Missing THEN w ELSE width
  IN  Max({48, Min({640, IF Given(asked) /\ asked > 0 THEN asked ELSE 160})})

(* parseByteRange(): [first, last], either of which may be missing.        *)
ByteRange(range, size) ==
  LET nothing == [present |-> FALSE, satisfiable |-> FALSE, start |-> 0, end |-> 0]
      end     == Min({size - 1, IF range.last = Missing THEN size - 1 ELSE range.last})
  IN  IF range = <<>> \/ Unreadable \in {range.first, range.last} THEN nothing
      ELSE IF range.first = Missing /\ range.last = Missing THEN nothing
      ELSE IF range.first = Missing
           THEN IF range.last = 0 \/ size = 0 THEN [nothing EXCEPT !.present = TRUE]
                ELSE [present |-> TRUE, satisfiable |-> TRUE, end |-> size - 1,
                      start |-> Max({0, size - range.last})]
      ELSE [present |-> TRUE, start |-> range.first, end |-> end,
            satisfiable |-> range.first < size /\ range.first <= end]

(* serveFile(): what of a file whose size was looked at before is sent,    *)
(* and which bytes of how many the answer says that is.                    *)
Served(range, size, content) ==
  LET part   == ByteRange(range, size)
      start  == IF part.satisfiable THEN part.start ELSE 0
      length == IF part.satisfiable THEN part.end - part.start + 1 ELSE size
  IN  IF part.present /\ ~ part.satisfiable
      THEN [status |-> 416, body |-> <<>>, says |-> <<Missing, Missing, size>>]
      ELSE [status |-> IF part.satisfiable THEN 206 ELSE 200,
            body   |-> SubSeq(content, start + 1, Min({Len(content), start + length})),
            says   |-> IF part.satisfiable THEN <<part.start, part.end, size>> ELSE <<>>]
=============================================================================
