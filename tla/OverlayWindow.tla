--------------------------- MODULE OverlayWindow ---------------------------
(***************************************************************************)
(* The overlay's window among its threads.  One thread polls the cursor:   *)
(* it moves a dragged window, lets clicks through wherever nothing is      *)
(* drawn, and looks after the displays.  The commands of the page and of   *)
(* the menu (a drag starts, a drag ends, a placement is picked) run on     *)
(* others.  All of them decide under one lock and carry out what they      *)
(* decided, a move of the window and a new frame for the page, after it.   *)
(*                                                                         *)
(* A layout is a place and whether it is laid out for a drag: the place    *)
(* decides the window's position and size.  The user presses on the        *)
(* creature, drags, releases, picks a placement, hides and shows.          *)
(***************************************************************************)
EXTENDS Naturals, FiniteSets

CONSTANTS Places, Slots,    \* layouts, commands in flight
          ButtonReads,      \* the platform tells whether the button is down
          Resets,           \* a window that is resized may lose its click-through flag
          ReleasedTicks,    \* RELEASED_TICKS
          MaxPresses, MaxPicks, MaxChanges,  \* bounds: what the user and the system do
          None

VARIABLES layout,   \* [place, dragging]
          clicks,   \* ClickThrough: what the flag was last set to, or None
          drag,     \* [token, released] or None
          tokens,   \* last_token
          hover,    \* what the page was last told
          window, flag, visible,  \* the real window: its place, whether clicks pass it
          poll,     \* the poll's own
          cmds,     \* the commands in flight
          page,     \* what the page shows and holds
          button, over,  \* the mouse: pressed, on what is drawn
          presses, picks, changes

mouse == <<button, over>>
bounds == <<presses, picks, changes>>
real == <<window, flag, visible>>
vars == <<layout, clicks, drag, tokens, hover, real, poll, cmds, page, mouse, bounds>>

NoPlan == [place |-> None, frame |-> None]
Free == [op |-> "none", at |-> "none", token |-> None, press |-> "held", plan |-> NoPlan]
Quiet == [at |-> "top", seen |-> FALSE, button |-> FALSE, over |-> FALSE, origin |-> None,
          plan |-> NoPlan, ignore |-> None, hover |-> None, token |-> None]

Init ==
  /\ \E p \in Places : /\ layout = [place |-> p, dragging |-> FALSE]
                       /\ window = p
                       /\ page = [frame |-> layout, hover |-> FALSE, press |-> FALSE, drag |-> None]
  /\ clicks = TRUE /\ flag = TRUE /\ visible = TRUE
  /\ drag = None /\ tokens = 0 /\ hover = FALSE
  /\ poll = Quiet /\ cmds = [s \in Slots |-> Free]
  /\ button = FALSE /\ over \in BOOLEAN
  /\ presses = 0 /\ picks = 0 /\ changes = 0

(* ---------------------- decisions, under the lock ---------------------- *)
(* relayout: what changed against the last layout is to be carried out; a  *)
(* layout that was forgotten is carried out in full.                       *)
PlanFor(next, forgotten) ==
  [place |-> IF forgotten \/ next.place # layout.place THEN next.place ELSE None,
   frame |-> IF forgotten \/ next # layout THEN next ELSE None]

Relaid(place, dragging, forgotten) ==
  LET next == [place |-> place, dragging |-> dragging]
  IN  [next |-> next, plan |-> PlanFor(next, forgotten),
       clicks |-> IF PlanFor(next, forgotten).place # None THEN None ELSE clicks]

(* ClickThrough::update: the system is told only of a change.              *)
Update(known, accept) == IF known = ~accept THEN None ELSE ~accept

Mut_Drops(place) == Relaid(place, layout.dragging, FALSE)
(* snap may place the dropped window elsewhere.                            *)
Drops(place) == Relaid(place, FALSE, FALSE)

Mut_Ends(token) == drag # None
Ends(token) == drag # None /\ drag.token = token

(* ------------------------------ the commands --------------------------- *)
Send(op, token) ==
  \E s \in Slots : /\ cmds[s].op = "none"
                   /\ cmds' = [cmds EXCEPT ![s] = [Free EXCEPT !.op = op, !.at = "sent", !.token = token]]

Handled(s, r, token) ==
  /\ layout' = r.next /\ clicks' = r.clicks
  /\ cmds' = [cmds EXCEPT ![s].at = "window", ![s].plan = r.plan, ![s].token = token]

DragStart(s) ==
  /\ cmds[s].op = "start" /\ cmds[s].at = "sent"
  /\ tokens' = tokens + 1
  /\ drag' = [token |-> tokens + 1, released |-> 0]
  /\ Handled(s, Relaid(layout.place, TRUE, FALSE), tokens + 1)
  /\ UNCHANGED <<hover, real, poll, page, mouse, bounds>>

(* The end of an older drag changes nothing.                               *)
DragEnd(s) ==
  /\ cmds[s].op = "end" /\ cmds[s].at = "sent"
  /\ IF Ends(cmds[s].token)
     THEN /\ drag' = None
          /\ \E place \in Places : Handled(s, Drops(place), None)
     ELSE /\ cmds' = [cmds EXCEPT ![s] = Free]
          /\ UNCHANGED <<layout, clicks, drag>>
  /\ UNCHANGED <<tokens, hover, real, poll, page, mouse, bounds>>

SetPlacement(s) ==
  /\ cmds[s].op = "pick" /\ cmds[s].at = "sent"
  /\ drag' = None
  /\ \E place \in Places : Handled(s, Relaid(place, FALSE, FALSE), None)
  /\ UNCHANGED <<tokens, hover, real, poll, page, mouse, bounds>>

(* carry_out, first the window: a resize may cost it its flag.             *)
MovesWindow(plan) ==
  IF plan.place = None THEN UNCHANGED <<window, flag>>
  ELSE /\ window' = plan.place
       /\ IF Resets /\ plan.place # window THEN flag' \in BOOLEAN ELSE flag' = flag

CarryWindow(s) ==
  /\ cmds[s].at = "window"
  /\ MovesWindow(cmds[s].plan)
  /\ cmds' = [cmds EXCEPT ![s].at = "frame"]
  /\ UNCHANGED <<layout, clicks, drag, tokens, hover, visible, poll, page, mouse, bounds>>

Told(frame) == IF frame = None THEN page.frame ELSE frame

(* Then the frame, and the answer: a start whose press is over by then is  *)
(* followed by its end.                                                    *)
CarryFrame(s) ==
  /\ cmds[s].at = "frame"
  /\ LET started == IF cmds[s].op = "start" THEN cmds[s].press ELSE "none"
     IN  /\ cmds' = [cmds EXCEPT ![s] = IF started = "up"
                       THEN [Free EXCEPT !.op = "end", !.at = "sent", !.token = cmds[s].token]
                       ELSE Free]
         /\ page' = [page EXCEPT !.frame = Told(cmds[s].plan.frame),
                                 !.drag = IF started = "held" THEN cmds[s].token ELSE @]
  /\ UNCHANGED <<layout, clicks, drag, tokens, hover, real, poll, mouse, bounds>>

(* -------------------------------- the poll ----------------------------- *)
Mut_SeesVisibility ==
  /\ poll.at = "top" /\ visible # poll.seen
  /\ clicks' = IF visible THEN None ELSE TRUE
  /\ hover' = hover
  /\ poll' = [poll EXCEPT !.at = "flag", !.seen = visible,
                          !.ignore = IF visible THEN None ELSE TRUE,
                          !.hover = IF hover THEN FALSE ELSE None]
  /\ UNCHANGED <<layout, drag, tokens, real, cmds, page, mouse, bounds>>

(* The window was hidden or shown, which may have cost it its flag; hidden *)
(* it lets clicks through.                                                 *)
SeesVisibility ==
  /\ poll.at = "top" /\ visible # poll.seen
  /\ clicks' = IF visible THEN None ELSE TRUE
  /\ hover' = FALSE
  /\ poll' = [poll EXCEPT !.at = "flag", !.seen = visible,
                          !.ignore = IF visible THEN None ELSE TRUE,
                          !.hover = IF hover THEN FALSE ELSE None]
  /\ UNCHANGED <<layout, drag, tokens, real, cmds, page, mouse, bounds>>

(* check_displays: the window's place is read before the lock is taken.    *)
ReadsOrigin ==
  /\ poll.at = "top" /\ poll.seen
  /\ poll' = [poll EXCEPT !.at = "check", !.origin = window]
  /\ UNCHANGED <<layout, clicks, drag, tokens, hover, real, cmds, page, mouse, bounds>>

Mut_CheckDisplays ==
  /\ poll.at = "check"
  /\ poll' = [poll EXCEPT !.at = "top"]
  /\ UNCHANGED <<layout, clicks, drag, tokens, hover, real, cmds, page, mouse, bounds>>

CheckDisplays ==
  /\ poll.at = "check"
  /\ IF poll.origin = layout.place
     THEN /\ poll' = [poll EXCEPT !.at = "top"]
          /\ UNCHANGED clicks
     ELSE LET r == Relaid(layout.place, drag # None, TRUE)
          IN  /\ clicks' = r.clicks
              /\ poll' = [poll EXCEPT !.at = "window", !.plan = r.plan]
  /\ UNCHANGED <<layout, drag, tokens, hover, real, cmds, page, mouse, bounds>>

ReadsMouse ==
  /\ poll.at = "top" /\ poll.seen
  /\ poll' = [poll EXCEPT !.at = "decide", !.button = button, !.over = over]
  /\ UNCHANGED <<layout, clicks, drag, tokens, hover, real, cmds, page, mouse, bounds>>

Observed == [drag EXCEPT !.released = IF ButtonReads /\ ~poll.button THEN @ + 1 ELSE 0]

(* One decision: the drag ends or moves the window, clicks are let through *)
(* or not, and the page is told what the cursor is over.                   *)
Decide ==
  /\ poll.at = "decide"
  /\ LET seen == IF drag = None THEN None ELSE Observed
         released == IF seen # None /\ seen.released >= ReleasedTicks THEN seen.token ELSE None
         moves == seen # None /\ released = None
     IN  /\ drag' = seen
         /\ \E place \in Places :
              LET r == Relaid(IF moves THEN place ELSE layout.place, layout.dragging \/ moves, FALSE)
                  known == IF moves THEN r.clicks ELSE clicks
                  ignore == Update(known, poll.over \/ drag # None)
              IN  /\ layout' = IF moves THEN r.next ELSE layout
                  /\ clicks' = IF ignore = None THEN known ELSE ignore
                  /\ poll' = [poll EXCEPT
                       !.at = IF released = None THEN "window" ELSE "end",
                       !.plan = IF moves THEN r.plan ELSE NoPlan,
                       !.ignore = ignore, !.token = released,
                       !.hover = IF hover = poll.over THEN None ELSE poll.over]
         /\ hover' = poll.over
  /\ UNCHANGED <<tokens, real, cmds, page, mouse, bounds>>

PollEndsDrag ==
  /\ poll.at = "end"
  /\ IF Ends(poll.token)
     THEN /\ drag' = None
          /\ \E place \in Places :
               LET r == Drops(place)
               IN  /\ layout' = r.next /\ clicks' = r.clicks
                   /\ poll' = [poll EXCEPT !.at = "window", !.plan = r.plan]
     ELSE /\ poll' = [poll EXCEPT !.at = "window"]
          /\ UNCHANGED <<layout, clicks, drag>>
  /\ UNCHANGED <<tokens, hover, real, cmds, page, mouse, bounds>>

PollCarriesWindow ==
  /\ poll.at = "window"
  /\ MovesWindow(poll.plan)
  /\ poll' = [poll EXCEPT !.at = "frame"]
  /\ UNCHANGED <<layout, clicks, drag, tokens, hover, visible, cmds, page, mouse, bounds>>

PollCarriesFrame ==
  /\ poll.at = "frame"
  /\ page' = [page EXCEPT !.frame = Told(poll.plan.frame)]
  /\ poll' = [poll EXCEPT !.at = "flag", !.plan = NoPlan]
  /\ UNCHANGED <<layout, clicks, drag, tokens, hover, real, cmds, mouse, bounds>>

Mut_FlagFails == clicks' = clicks
(* A call that failed leaves the flag unknown.                             *)
FlagFails == clicks' = None

SetClickThrough ==
  /\ poll.at = "flag"
  /\ poll' = [poll EXCEPT !.at = "emit", !.ignore = None]
  /\ IF poll.ignore = None THEN UNCHANGED <<clicks, flag, changes>>
     ELSE \/ flag' = poll.ignore /\ UNCHANGED <<clicks, changes>>
          \/ /\ changes < MaxChanges /\ changes' = changes + 1
             /\ FlagFails /\ flag' = flag
  /\ UNCHANGED <<layout, drag, tokens, hover, window, visible, cmds, page, mouse, presses, picks>>

EmitHover ==
  /\ poll.at = "emit"
  /\ page' = [page EXCEPT !.hover = IF poll.hover = None THEN @ ELSE poll.hover]
  /\ poll' = [poll EXCEPT !.at = "top", !.hover = None, !.token = None]
  /\ UNCHANGED <<layout, clicks, drag, tokens, hover, real, cmds, mouse, bounds>>

(* ------------------------- the user and the system --------------------- *)
(* The starts of the press so far: it came to its end, or the next one took *)
(* its place.                                                              *)
PressBecomes(what) ==
  [s \in Slots |-> IF cmds[s].op = "start" /\ cmds[s].press = "held"
                   THEN [cmds[s] EXCEPT !.press = what] ELSE cmds[s]]

Press ==
  /\ ~button /\ visible /\ over /\ ~flag /\ presses < MaxPresses
  /\ button' = TRUE /\ presses' = presses + 1
  /\ page' = [page EXCEPT !.press = TRUE, !.drag = None]
  /\ cmds' = PressBecomes("over")
  /\ UNCHANGED <<layout, clicks, drag, tokens, hover, real, poll, over, picks, changes>>

(* The pointer moved far enough since the press the page knows of.         *)
PageDrags ==
  /\ page.press /\ page.drag = None
  /\ \A s \in Slots : cmds[s].op # "start" \/ cmds[s].press # "held"
  /\ Send("start", None)
  /\ UNCHANGED <<layout, clicks, drag, tokens, hover, real, poll, page, mouse, bounds>>

Release ==
  /\ button /\ button' = FALSE
  /\ UNCHANGED <<layout, clicks, drag, tokens, hover, real, poll, cmds, page, over, bounds>>

Mut_PageUp ==
  /\ page.press /\ ~button
  /\ page' = [page EXCEPT !.press = FALSE, !.drag = None]
  /\ IF page.drag # None THEN Send("end", page.drag) ELSE cmds' = PressBecomes("over")
  /\ UNCHANGED <<layout, clicks, drag, tokens, hover, real, poll, mouse, bounds>>

(* The page hears of the release: the end goes out with the token, or once *)
(* the start has answered.                                                 *)
PageUp ==
  /\ page.press /\ ~button
  /\ page' = [page EXCEPT !.press = FALSE, !.drag = None]
  /\ IF page.drag # None THEN Send("end", page.drag) ELSE cmds' = PressBecomes("up")
  /\ UNCHANGED <<layout, clicks, drag, tokens, hover, real, poll, mouse, bounds>>

Picks ==
  /\ picks < MaxPicks /\ picks' = picks + 1
  /\ Send("pick", None)
  /\ UNCHANGED <<layout, clicks, drag, tokens, hover, real, poll, page, mouse, presses, changes>>

(* The cursor moves on or off, the window is moved by the system, or it is *)
(* hidden or shown, once the poll has seen the last time it was.           *)
Changes ==
  /\ changes < MaxChanges /\ changes' = changes + 1
  /\ \/ over' = ~over /\ UNCHANGED real
     \/ /\ poll.seen = visible /\ visible' = ~visible /\ flag' \in BOOLEAN
        /\ UNCHANGED <<window, over>>
     \/ /\ window' \in Places \ {window}
        /\ UNCHANGED <<flag, visible, over>>
  /\ UNCHANGED <<layout, clicks, drag, tokens, hover, poll, cmds, page, button, presses, picks>>

Commands(s) == DragStart(s) \/ DragEnd(s) \/ SetPlacement(s) \/ CarryWindow(s) \/ CarryFrame(s)
PollGoesOn == \/ CheckDisplays \/ Decide \/ PollEndsDrag
              \/ PollCarriesWindow \/ PollCarriesFrame \/ SetClickThrough \/ EmitHover

Next ==
  \/ \E s \in Slots : Commands(s)
  \/ SeesVisibility \/ ReadsOrigin \/ ReadsMouse \/ PollGoesOn
  \/ Press \/ PageDrags \/ Release \/ PageUp \/ Picks \/ Changes

(* Commands and the poll go on; of the poll's counters each comes up again *)
(* and again; the user lets go.  That the page hears of it is sure only    *)
(* where nothing else would notice.                                        *)
Fairness ==
  /\ \A s \in Slots : WF_vars(Commands(s))
  /\ WF_vars(PollGoesOn) /\ SF_vars(SeesVisibility) /\ SF_vars(ReadsOrigin) /\ SF_vars(ReadsMouse)
  /\ WF_vars(Release) /\ (ButtonReads \/ WF_vars(PageUp))

Spec == Init /\ [][Next]_vars /\ Fairness

(* ------------------------------ properties ----------------------------- *)
(* Types: a drag has the last token, and the layout is a drag's only then. *)
WindowTypeOK ==
  /\ drag # None => drag.token = tokens /\ drag.released \in 0..ReleasedTicks
  /\ layout.dragging = (drag # None)
  /\ clicks \in BOOLEAN \cup {None}

(* A drag the user still holds is not ended by the end of an older one, by *)
(* a button read before the press, or by a release the poll saw earlier:   *)
(* only a placement that is picked ends it.                                *)
HeldDragLives ==
  [][(drag # None /\ drag' = None /\ button /\ page.press /\ page.drag = drag.token)
     => picks > 0]_vars

(* No drag outlives the button for good: the window never sticks to the    *)
(* cursor, whatever order start and end are handled in.                    *)
DragsEnd == []<>(~button /\ drag = None)

(* Once all is quiet the window is where the layout has it, whatever moved *)
(* it or moved it late.                                                    *)
WindowSettles == <>[](visible => window = layout.place)

(* Once all is quiet the page has been told what the cursor is over.       *)
HoverSettles == <>[](visible => page.hover = over)

(* Once all is quiet clicks go through exactly where nothing is drawn.     *)
FlagSettles == <>[](visible => flag = ~over)

=============================================================================
