-------------------------- MODULE OverlayPlacement --------------------------
(***************************************************************************)
(* Where the creature stands.  Its stage is on an edge of a display's work *)
(* area or floats; the window is the stage with room for the island above  *)
(* or below it.  What is kept, and saved, is the placement and the anchor, *)
(* the centre of the stage.  The user drags and drops it, picks a          *)
(* placement from a menu, changes the displays and restarts the app.       *)
(*                                                                         *)
(* Lengths are whole pixels, and scales are in quarters.  Points are in    *)
(* half pixels, for the centre of a stage of odd size.                     *)
(***************************************************************************)
EXTENDS Integers, Sequences

CONSTANTS StageW, StageH, WindowW, WindowH, SnapDistance, Mark,  \* logical pixels
          DisplaySets,  \* the displays there may be: a set of sequences of monitors
          Cursors,      \* where the cursor may be
          Files,        \* the settings a first start may find
          None

SizesAssumption ==
  \A l \in {StageW, StageH, WindowW, WindowH, SnapDistance, Mark} : l \in Nat /\ l % 4 = 0

VARIABLES displays,   \* what the system has
          monitors,   \* what the app last read of it
          placement, anchor, layout,
          drag,       \* None, or the drag: stage centre minus cursor, and where it began
          file,       \* the settings file
          savedAt,    \* what was shown, on which displays, when it was last written
          app

vars == <<displays, monitors, placement, anchor, layout, drag, file, savedAt, app>>

Placements == {"taskbar", "float", "ceiling", "left", "right"}

(* ------------------------------ geometry ------------------------------- *)
Point(x, y) == [x |-> x, y |-> y]
Plus(p, q) == Point(p.x + q.x, p.y + q.y)
Minus(p, q) == Point(p.x - q.x, p.y - q.y)
Rect(x, y, w, h) == [x |-> x, y |-> y, w |-> w, h |-> h]
Right(r) == r.x + r.w
Bottom(r) == r.y + r.h
Center(r) == Point(2 * r.x + r.w, 2 * r.y + r.h)
Contains(r, p) == /\ 2 * r.x <= p.x /\ p.x < 2 * Right(r)
                  /\ 2 * r.y <= p.y /\ p.y < 2 * Bottom(r)
Inside(r, s) == r.x >= s.x /\ r.y >= s.y /\ Right(r) <= Right(s) /\ Bottom(r) <= Bottom(s)
Larger(a, b) == IF a > b THEN a ELSE b
Smaller(a, b) == IF a < b THEN a ELSE b
Abs(n) == Larger(n, -n)
Outside(v, lo, hi) == Larger(Larger(lo - v, v - hi), 0)
DistanceSq(r, p) ==
  LET dx == Outside(p.x, 2 * r.x, 2 * Right(r))
      dy == Outside(p.y, 2 * r.y, 2 * Bottom(r))
  IN  dx * dx + dy * dy
(* An empty range clamps to its lower end.                                 *)
Mut_Clamp(v, lo, hi) == Larger(Smaller(v, hi), lo - 1)
Clamp(v, lo, hi) == IF hi < lo THEN lo ELSE Smaller(Larger(v, lo), hi)
(* f64::round of a number of halves: a half goes away from zero.           *)
Round(halves) == IF halves >= 0 THEN (halves + 1) \div 2 ELSE -((1 - halves) \div 2)

(* ------------------------------ the layout ----------------------------- *)
Px(logical, m) == (logical * m.scale) \div 4
WorkOf(m) == IF m.work.w > 0 /\ m.work.h > 0 THEN m.work ELSE m.bounds

PickMonitor(p, ms) ==
  LET containing == {i \in DOMAIN ms : Contains(ms[i].bounds, p)}
      nearest == {i \in DOMAIN ms : \A j \in DOMAIN ms :
                    DistanceSq(ms[i].bounds, p) <= DistanceSq(ms[j].bounds, p)}
      among == IF containing # {} THEN containing ELSE nearest
  IN  CHOOSE i \in among : \A j \in among : i <= j

StageOf(effective, at, m) ==
  LET work == WorkOf(m)
      w == Px(StageW, m)
      h == Px(StageH, m)
      x == CASE effective = "left" -> work.x
             [] effective = "right" -> Right(work) - w
             [] OTHER -> Clamp(Round(at.x - w), work.x, Right(work) - w)
      y == CASE effective = "taskbar" -> Bottom(work) - h
             [] effective = "ceiling" -> work.y
             [] OTHER -> Clamp(Round(at.y - h), work.y, Bottom(work) - h)
  IN  Rect(x, y, w, h)

IslandSide(effective, stage, work, islandH) ==
  LET above == stage.y - work.y
      below == Bottom(work) - Bottom(stage)
  IN  CASE effective = "taskbar" -> "above"
        [] effective = "ceiling" -> "below"
        [] OTHER -> IF above >= islandH \/ above >= below THEN "above" ELSE "below"

(* Centred on the stage, the island on its side, and all of it on the work *)
(* area.                                                                   *)
WindowOf(stage, side, m) ==
  LET work == WorkOf(m)
      w == Larger(Smaller(Px(WindowW, m), work.w), 1)
      h == Larger(Smaller(Px(WindowH, m), work.h), 1)
      wantY == IF side = "above" THEN stage.y - (h - stage.h) ELSE stage.y
  IN  Rect(Clamp(Round(Center(stage).x - w), work.x, Right(work) - w),
           Clamp(wantY, work.y, Bottom(work) - h), w, h)

LayoutOf(place, at, m, dragging) ==
  LET effective == IF dragging THEN "float" ELSE place
      stage == StageOf(effective, at, m)
      side == IslandSide(effective, stage, WorkOf(m), Smaller(Px(WindowH, m), WorkOf(m).h) - stage.h)
  IN  [stage |-> stage, window |-> WindowOf(stage, side, m), monitor |-> m,
       placement |-> place, side |-> side]

Reach(m) == Px(SnapDistance, m)

Mut_Snap(stage, m) ==
  LET work == WorkOf(m)
  IN  CASE Abs(stage.y - work.y) <= Reach(m) -> "taskbar"
        [] Abs(Bottom(work) - Bottom(stage)) <= Reach(m) -> "ceiling"
        [] OTHER -> "float"

(* The placement a dropped stage takes, the edges tried in this order.     *)
Snap(stage, m) ==
  LET work == WorkOf(m)
  IN  CASE Abs(Bottom(work) - Bottom(stage)) <= Reach(m) -> "taskbar"
        [] Abs(stage.y - work.y) <= Reach(m) -> "ceiling"
        [] Abs(stage.x - work.x) <= Reach(m) -> "left"
        [] Abs(Right(work) - Right(stage)) <= Reach(m) -> "right"
        [] OTHER -> "float"

DefaultAnchor(m) ==
  LET work == WorkOf(m)
  IN  Point(2 * work.x + (17 * work.w) \div 10, 2 * Bottom(work) - Px(StageH, m))

LegacyAnchor(topLeft, m) == Plus(topLeft, Point(2 * Px(Mark, m), 2 * Px(Mark, m)))

(* Going to float from an edge leaves that edge.                           *)
SwitchAnchor(from, to) ==
  LET c == Center(from.stage)
      lift == 4 * Reach(from.monitor)
  IN  CASE to # "float" -> c
        [] from.placement = "taskbar" -> Point(c.x, c.y - lift)
        [] from.placement = "ceiling" -> Point(c.x, c.y + lift)
        [] from.placement = "left" -> Point(c.x + lift, c.y)
        [] from.placement = "right" -> Point(c.x - lift, c.y)
        [] OTHER -> c

Compute(ms, place, at, dragging) ==
  LET a == IF at = None THEN DefaultAnchor(ms[1]) ELSE at
  IN  LayoutOf(place, a, ms[PickMonitor(a, ms)], dragging)

Mut_Relayout(ms, place, at, dragging) ==
  LET next == Compute(ms, place, at, dragging)
  IN  layout' = next /\ placement' = place /\ anchor' = at

(* Inner::relayout: outside a drag the anchor becomes the stage's centre.  *)
Relayout(ms, place, at, dragging) ==
  LET next == Compute(ms, place, at, dragging)
  IN  /\ layout' = next
      /\ placement' = place
      /\ anchor' = IF dragging THEN at ELSE Center(next.stage)

(* ------------------------------ the actions ---------------------------- *)
Init ==
  /\ displays \in DisplaySets /\ monitors = displays
  /\ placement = "taskbar" /\ anchor = None /\ layout = None /\ drag = None
  /\ file \in Files /\ savedAt = None /\ app = "down"

Mut_Persist ==
  /\ file' = [kind |-> "current", placement |-> placement', anchor |-> anchor]
  /\ savedAt' = [stage |-> layout'.stage, displays |-> monitors']

(* persist, which runs once the lock is free: the anchor in whole pixels.  *)
Persist ==
  /\ file' = [kind |-> "current", placement |-> placement',
              anchor |-> Point(2 * Round(anchor'.x), 2 * Round(anchor'.y))]
  /\ savedAt' = [stage |-> layout'.stage, displays |-> monitors']

(* An old overlay's file has its window's corner: the display it is on     *)
(* gives the scale and the placement.                                      *)
Migrates ==
  LET m == displays[PickMonitor(file.topLeft, displays)]
      at == LegacyAnchor(file.topLeft, m)
  IN  /\ Relayout(displays, Snap(LayoutOf("float", at, m, FALSE).stage, m), at, FALSE)
      /\ Persist

Starts ==
  /\ app = "down"
  /\ app' = "up" /\ monitors' = displays /\ drag' = None
  /\ CASE file.kind = "current" -> /\ Relayout(displays, file.placement, file.anchor, FALSE)
                                   /\ UNCHANGED <<file, savedAt>>
       [] file.kind = "legacy" -> Migrates
       [] file.kind = "nothing" -> /\ Relayout(displays, "taskbar", None, FALSE)
                                   /\ UNCHANGED <<file, savedAt>>
  /\ UNCHANGED displays

DragStart(cursor) ==
  /\ app = "up" /\ drag = None
  /\ Contains(layout.stage, cursor)
  /\ drag' = [offset |-> Minus(Center(layout.stage), cursor), from |-> layout.stage]
  /\ Relayout(monitors, placement, anchor, TRUE)
  /\ UNCHANGED <<displays, monitors, file, savedAt, app>>

(* The poll moves the anchor with the cursor.                              *)
Moves(cursor) ==
  /\ app = "up" /\ drag # None
  /\ Relayout(monitors, placement, Plus(cursor, drag.offset), TRUE)
  /\ UNCHANGED <<displays, monitors, drag, file, savedAt, app>>

EndDrag ==
  /\ app = "up" /\ drag # None
  /\ drag' = None
  /\ Relayout(monitors, Snap(layout.stage, layout.monitor), Center(layout.stage), FALSE)
  /\ monitors' = monitors /\ Persist
  /\ UNCHANGED <<displays, app>>

(* A placement picked from the menu or the Hub ends a drag without a drop. *)
SetPlacement(to) ==
  /\ app = "up"
  /\ drag' = None
  /\ Relayout(monitors, to, SwitchAnchor(layout, to), FALSE)
  /\ monitors' = monitors /\ Persist
  /\ UNCHANGED <<displays, app>>

DisplaysChange ==
  /\ \E ds \in DisplaySets \ {displays} : displays' = ds
  /\ UNCHANGED <<monitors, placement, anchor, layout, drag, file, savedAt, app>>

Mut_CheckDisplays ==
  /\ app = "up" /\ monitors # displays
  /\ monitors' = displays
  /\ UNCHANGED <<displays, placement, anchor, layout, drag, file, savedAt, app>>

CheckDisplays ==
  /\ app = "up" /\ monitors # displays
  /\ monitors' = displays
  /\ Relayout(displays, placement, anchor, drag # None)
  /\ UNCHANGED <<displays, drag, file, savedAt, app>>

Quits ==
  /\ app = "up"
  /\ app' = "down"
  /\ placement' = "taskbar" /\ anchor' = None /\ layout' = None /\ drag' = None
  /\ UNCHANGED <<displays, monitors, file, savedAt>>

Next ==
  \/ Starts \/ EndDrag \/ DisplaysChange \/ CheckDisplays \/ Quits
  \/ \E cursor \in Cursors : DragStart(cursor) \/ Moves(cursor)
  \/ \E to \in Placements : SetPlacement(to)

Spec == Init /\ [][Next]_vars

(* ------------------------------ properties ----------------------------- *)
(* Types: the layout is of the placement and on a display that was read.   *)
PlacementTypeOK ==
  /\ placement \in Placements
  /\ app = "up" => /\ layout.placement = placement
                   /\ \E i \in DOMAIN monitors : layout.monitor = monitors[i]

(* Through drags, picks, changes of displays and restarts, the window is   *)
(* within the work area of a display, and the stage within the window.     *)
OnTheDesktop ==
  app = "up" => Inside(layout.window, WorkOf(layout.monitor)) /\ Inside(layout.stage, layout.window)

(* Outside a drag the creature stands where its placement says.            *)
StandsAsPlaced ==
  (app = "up" /\ drag = None) =>
    LET work == WorkOf(layout.monitor) stage == layout.stage
    IN  /\ placement = "taskbar" => Bottom(stage) = Bottom(work)
        /\ placement = "ceiling" => stage.y = work.y
        /\ placement = "left" => stage.x = work.x
        /\ placement = "right" => Right(stage) = Right(work)
        /\ anchor = Center(stage)

(* A drop moves the creature no further than the reach of an edge.         *)
DropsWhereItIs ==
  [][EndDrag => /\ Abs(layout'.stage.x - layout.stage.x) <= Reach(layout.monitor)
                /\ Abs(layout'.stage.y - layout.stage.y) <= Reach(layout.monitor)
                /\ layout'.monitor = layout.monitor]_vars

(* A restart on the same displays brings the creature back to within one   *)
(* pixel of where it was when its place was saved.                         *)
ComesBack ==
  [][(Starts /\ savedAt # None /\ displays = savedAt.displays) =>
       /\ Abs(layout'.stage.x - savedAt.stage.x) <= 1
       /\ Abs(layout'.stage.y - savedAt.stage.y) <= 1]_vars

(* The creature stands on a display, where its placement says.             *)
PlacementInv ==
  /\ PlacementTypeOK
  /\ OnTheDesktop
  /\ StandsAsPlaced
=============================================================================
