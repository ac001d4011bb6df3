------------------------------ MODULE MCOverlay ------------------------------
(***************************************************************************)
(* The overlay: where it stands, its window and the clicks that pass       *)
(* through it, the regions its page draws, and its menu. The parts share   *)
(* no state; a behaviour is one of a single part, and the run takes each   *)
(* in turn.                                                                *)
(***************************************************************************)
EXTENDS Integers, Sequences, FiniteSets

CONSTANTS Parts, None

(* A main display with a taskbar, a larger one to its left and above, of    *)
(* another scale, and one smaller than the overlay; lengths are in quarters *)
(* of its scale, the cursor in half pixels.                                 *)
Area(x, y, w, h) == [x |-> x, y |-> y, w |-> w, h |-> h]
Main == [bounds |-> Area(0, 0, 60, 48), work |-> Area(0, 0, 60, 44), scale |-> 4]
Side == [bounds |-> Area(-70, -10, 70, 60), work |-> Area(-70, -5, 70, 50), scale |-> 5]
Tiny == [bounds |-> Area(0, 0, 20, 20), work |-> Area(0, 0, 0, 0), scale |-> 4]
At(x, y) == [x |-> 2 * x, y |-> 2 * y]
SomeCursors == {At(50, 40), At(2, 2), At(30, 20), At(-40, 10), At(-69, 38)}
SomeFiles ==
  {[kind |-> "nothing"], [kind |-> "legacy", topLeft |-> At(20, 10)],
   [kind |-> "current", placement |-> "left", anchor |-> None],
   [kind |-> "current", placement |-> "float", anchor |-> At(900, 900)]}

VARIABLES
  part,  \* the part that runs
  displays, monitors, placement, anchor, overlayPlacementLayout,
  overlayPlacementDrag, file, savedAt, app,  \* OverlayPlacement
  overlayWindowLayout, clicks, overlayWindowDrag, tokens, hover,
  window, flag, visible, poll, cmds, overlayWindowPage, button, over,
  presses, picks, changes,  \* OverlayWindow
  drawn, overlayRegionsPage, asks, flight, core, sent, latest,  \* OverlayRegions
  front, menu, menus, pending, tasks, queue, opening, refusals,
  excused  \* OverlayMenu

overlayPlacementVars == <<displays, monitors, placement, anchor,
  overlayPlacementLayout, overlayPlacementDrag, file, savedAt, app>>
overlayWindowVars == <<overlayWindowLayout, clicks, overlayWindowDrag, tokens,
  hover, window, flag, visible, poll, cmds, overlayWindowPage, button, over,
  presses, picks, changes>>
overlayRegionsVars == <<drawn, overlayRegionsPage, asks, flight, core, sent,
  latest>>
overlayMenuVars == <<front, menu, menus, pending, tasks, queue, opening, refusals,
  excused>>
vars == <<part, overlayPlacementVars, overlayWindowVars, overlayRegionsVars,
  overlayMenuVars>>

P == INSTANCE OverlayPlacement WITH StageW <- 12, StageH <- 8, WindowW <- 24,
       WindowH <- 28, SnapDistance <- 4, Mark <- 8,
       DisplaySets <- {<<Main, Side>>, <<Tiny, Side>>}, Cursors <- SomeCursors,
       Files <- SomeFiles, layout <- overlayPlacementLayout,
       drag <- overlayPlacementDrag
W == INSTANCE OverlayWindow WITH Places <- {"a", "b"}, Slots <- {"s1"},
       ButtonReads <- TRUE, Resets <- FALSE, ReleasedTicks <- 2, MaxPresses <- 2,
       MaxPicks <- 0, MaxChanges <- 0, layout <- overlayWindowLayout,
       drag <- overlayWindowDrag, page <- overlayWindowPage
D == INSTANCE OverlayWindow WITH Places <- {"a", "b"}, Slots <- {"s1"},
       ButtonReads <- FALSE, Resets <- FALSE, ReleasedTicks <- 2, MaxPresses <- 1,
       MaxPicks <- 1, MaxChanges <- 0, layout <- overlayWindowLayout,
       drag <- overlayWindowDrag, page <- overlayWindowPage
S == INSTANCE OverlayWindow WITH Places <- {"a", "b"}, Slots <- {"s1"},
       ButtonReads <- TRUE, Resets <- FALSE, ReleasedTicks <- 2, MaxPresses <- 0,
       MaxPicks <- 1, MaxChanges <- 2, layout <- overlayWindowLayout,
       drag <- overlayWindowDrag, page <- overlayWindowPage
R == INSTANCE OverlayRegions WITH Drawings <- {"card", "crowd", "nothing"},
       Nothing <- "nothing", Refused <- {"crowd"}, MaxReports <- 3, MaxReloads <- 2,
       page <- overlayRegionsPage
M == INSTANCE OverlayMenu WITH Apps <- {"editor", "browser"}, Overlay <- "overlay",
       Ours <- {"hub"}, Explorer <- "explorer", Reopens <- TRUE, MaxMenus <- 3,
       MaxRefusals <- 1
N == INSTANCE OverlayMenu WITH Apps <- {"editor", "browser"}, Overlay <- "overlay",
       Ours <- {"hub"}, Explorer <- "explorer", Reopens <- FALSE, MaxMenus <- 3,
       MaxRefusals <- 1

ASSUME OverlayAssumption == P!SizesAssumption

(* Each part in its initial states; the parts that do not run rest in one  *)
(* of them.                                                                *)
Init ==
  /\ part \in Parts
  /\ P!Init
  /\ part # "placement" => displays = <<Main, Side>> /\ file.kind = "nothing"
  /\ CASE part = "drag" -> D!Init
       [] part = "settles" -> S!Init
       [] OTHER -> W!Init
  /\ part \notin {"window", "drag", "settles"} =>
       ~over /\ overlayWindowLayout.place = "a"
  /\ R!Init
  /\ part # "regions" => drawn = "nothing"
  /\ CASE part = "rest" -> N!Init
       [] OTHER -> M!Init
  /\ part \notin {"menu", "rest"} => front = None

Next ==
  /\ UNCHANGED part
  /\ IF part = "placement" THEN P!Next
     ELSE UNCHANGED overlayPlacementVars
  /\ CASE part = "window" -> W!Next
       [] part = "drag" -> D!Next
       [] part = "settles" -> S!Next
       [] OTHER -> UNCHANGED overlayWindowVars
  /\ IF part = "regions" THEN R!Next
     ELSE UNCHANGED overlayRegionsVars
  /\ CASE part = "menu" -> M!Next
       [] part = "rest" -> N!Next
       [] OTHER -> UNCHANGED overlayMenuVars

(* Each part with the fairness of its own specification.                   *)
Fairness ==
  /\ \A s \in {"s1"} : WF_overlayWindowVars(part = "drag" /\ D!Commands(s))
  /\ WF_overlayWindowVars(part = "drag" /\ D!PollGoesOn)
  /\ SF_overlayWindowVars(part = "drag" /\ D!SeesVisibility)
  /\ SF_overlayWindowVars(part = "drag" /\ D!ReadsOrigin)
  /\ SF_overlayWindowVars(part = "drag" /\ D!ReadsMouse)
  /\ WF_overlayWindowVars(part = "drag" /\ D!Release)
  /\ WF_overlayWindowVars(part = "drag" /\ D!PageUp)
  /\ \A s \in {"s1"} : WF_overlayWindowVars(part = "settles" /\ S!Commands(s))
  /\ WF_overlayWindowVars(part = "settles" /\ S!PollGoesOn)
  /\ SF_overlayWindowVars(part = "settles" /\ S!SeesVisibility)
  /\ SF_overlayWindowVars(part = "settles" /\ S!ReadsOrigin)
  /\ SF_overlayWindowVars(part = "settles" /\ S!ReadsMouse)
  /\ WF_overlayWindowVars(part = "settles" /\ S!Release)

Spec == Init /\ [][Next]_vars /\ Fairness

-----------------------------------------------------------------------------
(* The creature stands on a display, where its placement says; the regions *)
(* in force are the latest good report's; and the window that was in front *)
(* before the menu is again.                                               *)
OverlayInv ==
  /\ (part = "placement" => P!PlacementInv)
  /\ (part = "window" => W!WindowTypeOK)
  /\ (part = "regions" => R!RegionsInv)
  /\ M!HeldIsSettled
  /\ (part = "rest" => N!MenuInv)

(* A drop stays where it is and comes back there, no late command ends a   *)
(* held drag, no older report replaces a newer, only the overlay's own     *)
(* activation is undone; and drags end and the window, the hover and the   *)
(* flag settle.                                                            *)
OverlayBehaviour ==
  /\ P!DropsWhereItIs
  /\ P!ComesBack
  /\ W!HeldDragLives
  /\ R!NeverGoesBack
  /\ M!OpenMenuKeepsFront
  /\ M!OthersKeepFront
  /\ (part = "drag" => D!DragsEnd)
  /\ (part = "settles" => S!WindowSettles)
  /\ (part = "settles" => S!HoverSettles)
  /\ (part = "settles" => S!FlagSettles)
==============================================================================
