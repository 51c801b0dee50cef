---------------------------- MODULE MotionDetector ----------------------------
(***************************************************************************)
(* vision/MotionDetector and what AiRuntime::updateMotion makes of it: one *)
(* frame against the one before, point by point on a grid of samples; the  *)
(* cells where enough points changed; the zones that asks for.             *)
(*                                                                         *)
(* A frame is [format, cpu, size, at], at a function of <<x, y>>; the      *)
(* cells, a text in the code, are a set of <<row, column>>.                *)
(***************************************************************************)
EXTENDS Geometry, Sequences, FiniteSets
LOCAL INSTANCE FiniteSetsExt

CONSTANTS SampleWidth, SampleHeight,  \* kMotionSampleWidth, kMotionSampleHeight
          PixelDelta,                 \* kMotionPixelDelta
          CellPercent                 \* kMotionCellPercent

Samples == (0 .. SampleWidth - 1) \X (0 .. SampleHeight - 1)
Grid(columns, rows) == [columns |-> Greatest(1, columns), rows |-> Greatest(1, rows)]
Fresh(grid) == [grid |-> Grid(grid.columns, grid.rows), previous |-> [p \in Samples |-> 0], primed |-> FALSE]
Reset(detector) == [detector EXCEPT !.previous = [p \in Samples |-> 0], !.primed = FALSE]

Luma(pixel) == (2 * pixel[1] + 5 * pixel[2] + pixel[3]) \div 8
Readable(frame) == ValidSize(frame.size) /\ frame.cpu /\ frame.format \in {"rgb", "luma"}

(* The samples are laid over the content, or over the frame if there is    *)
(* none, whatever the size: two frames are compared point with point.      *)
Content(frame, content) ==
  IF content.w <= 0 \/ content.h <= 0 THEN [x |-> 0, y |-> 0, w |-> frame.size.w, h |-> frame.size.h]
  ELSE content
Sampled(frame, content) ==
  LET area == Content(frame, content)
      X(sx) == Least(area.x + (area.w * sx) \div SampleWidth, frame.size.w - 1)
      Y(sy) == Least(area.y + (area.h * sy) \div SampleHeight, frame.size.h - 1)
      Read(pixel) == IF frame.format = "rgb" THEN Luma(pixel) ELSE pixel
  IN  [p \in Samples |-> Read(frame.at[<<X(p[1]), Y(p[2])>>])]

(* Changed points are counted, not averaged, and a cell without any point  *)
(* never moves.                                                            *)
CellOf(grid, p) == <<(grid.rows * p[2]) \div SampleHeight, (grid.columns * p[1]) \div SampleWidth>>
Cells(grid) == (0 .. grid.rows - 1) \X (0 .. grid.columns - 1)
Differs(a, b) == a - b > PixelDelta \/ b - a > PixelDelta
Moved(grid, previous, current) ==
  {cell \in Cells(grid) :
     LET points == {p \in Samples : CellOf(grid, p) = cell}
         moved  == {p \in points : Differs(current[p], previous[p])}
     IN  points # {} /\ Cardinality(moved) * 100 >= Cardinality(points) * CellPercent}

(* analyse(): a frame it cannot read changes nothing.                      *)
Analysed(detector, frame, content) ==
  IF ~ Readable(frame) THEN [detector |-> detector, cells |-> {}]
  ELSE LET current == Sampled(frame, content)
       IN  [detector |-> [detector EXCEPT !.previous = current, !.primed = TRUE],
            cells |-> IF detector.primed THEN Moved(detector.grid, detector.previous, current) ELSE {}]

-----------------------------------------------------------------------------
(* parseMotionZones().  The text is a sequence of "{", "}" and fields      *)
(* <<name, value>>: an object is what stands between an opening brace and  *)
(* the next closing one, and a field it has not has its fallback.          *)
Field(object, name, fallback) ==
  LET named == {i \in DOMAIN object : Len(object[i]) = 2 /\ object[i][1] = name}
  IN  IF named = {} THEN fallback ELSE object[Min(named)][2]
Zone(object) ==
  LET r1 == Field(object, "r1", 0)  r2 == Field(object, "r2", 0)
      c1 == Field(object, "c1", 0)  c2 == Field(object, "c2", 0)
  IN  [row1 |-> Least(r1, r2), row2 |-> Greatest(r1, r2),
       col1 |-> Least(c1, c2), col2 |-> Greatest(c1, c2),
       level |-> Least(10, Greatest(1, Field(object, "level", 1)))]

ParseZones(text) ==
  LET Next(mark, at) == {i \in at .. Len(text) : text[i] = <<mark>>}
      From[at \in 1 .. Len(text) + 1] ==
        LET opens  == Next("{", at)
            closes == Next("}", Min(opens))
        IN  IF opens = {} THEN <<>>
            ELSE IF closes = {} THEN <<>>
            ELSE <<Zone(SubSeq(text, Min(opens) + 1, Min(closes) - 1))>> \o From[Min(closes) + 1]
  IN  From[1]

(* zonesTriggered(): level N is N tenths of the zone's cells that exist.   *)
CellsIn(zone, grid) == Cells(grid) \cap ((zone.row1 .. zone.row2) \X (zone.col1 .. zone.col2))
Fires(zone, moved, grid) ==
  LET cells == CellsIn(zone, grid)
  IN  cells # {} /\ Cardinality(moved \cap cells) * 10 >= Cardinality(cells) * zone.level
ZonesTriggered(moved, zones, grid) ==
  moved # {} /\ \E i \in DOMAIN zones : Fires(zones[i], moved, grid)

(* splitByZones()                                                          *)
Covered(cell, zones) ==
  \E i \in DOMAIN zones : cell[1] \in zones[i].row1 .. zones[i].row2 /\ cell[2] \in zones[i].col1 .. zones[i].col2
Split(moved, zones) ==
  LET inside == {cell \in moved : Covered(cell, zones)}
  IN  [inside |-> inside, outside |-> moved \ inside]

(* The notice that a frame gives rise to: the motion is held for a while   *)
(* after it, the recording gate hears of the firing frame alone, and the   *)
(* picture is copied on the rising edge.  last is 0 until something fires. *)
Notice(sink, frame, now) ==
  LET seen   == Analysed(sink.detector, frame, [x |-> 0, y |-> 0, w |-> 0, h |-> 0])
      firing == ZonesTriggered(seen.cells, sink.zones, sink.grid)
      last   == IF firing THEN now ELSE sink.last
      held   == firing \/ (last # 0 /\ now - last < sink.hold)
  IN  [sink |-> [sink EXCEPT !.detector = seen.detector, !.last = last, !.was = held],
       cells |-> seen.cells, split |-> Split(seen.cells, sink.zones),
       triggered |-> held, gate |-> firing, carries |-> sink.saves /\ held /\ ~ sink.was]
=============================================================================
