---------------------------- MODULE OverlayMenu ----------------------------
(***************************************************************************)
(* The overlay's right-click menu and the window in front.  The menu       *)
(* brings the overlay to the front; a give-back to the window that was     *)
(* there before is held until the item picked is known.  The item comes    *)
(* through the event loop, after the menu has closed; a menu closed        *)
(* without one is settled by a task that queues behind it.  The user may   *)
(* click into another app, and open the menu again, at any time.           *)
(***************************************************************************)
EXTENDS Naturals, Sequences

CONSTANTS Apps, Overlay, Ours, Explorer,  \* windows: the user's, this app's, the file manager
          Reopens,   \* the menu may be opened again before the last one is settled
          MaxMenus, MaxRefusals,  \* bounds
          None

VARIABLES front,    \* the window in front, or None
          menu,     \* the menu that is open: its number, 0 for none armed, or None
          menus, pending,  \* Handback: the last menu armed, and the give-back held
          tasks,    \* menus whose task has not queued its settlement yet
          queue,    \* the event loop: items picked, settlements
          opening,  \* the file manager was asked for
          refusals, excused  \* history: the system refused, or there was nothing to return to

vars == <<front, menu, menus, pending, tasks, queue, opening, refusals, excused>>

Init ==
  /\ front \in Apps \cup {None}
  /\ menu = None /\ menus = 0 /\ pending = None
  /\ tasks = {} /\ queue = <<>> /\ opening = FALSE
  /\ refusals = 0 /\ excused = FALSE

Item(what) == [is |-> "item", item |-> what]
Settlement(n) == [is |-> "settle", menu |-> n]

(* ------------------------------- Handback ------------------------------ *)
Mut_ShouldGiveBack(previous, now) == previous # Overlay
ShouldGiveBack(previous, now) == now = Overlay /\ previous # Overlay

(* carry_out, from the front `now`: the system may refuse.  What is in     *)
(* front if it is not given back is one of `stays`.                        *)
GiveBack(held, keepFront, now, stays) ==
  IF held # None /\ ~keepFront /\ ShouldGiveBack(held.previous, now)
  THEN \/ front' = held.previous /\ UNCHANGED <<refusals, excused>>
       \/ /\ refusals < MaxRefusals /\ refusals' = refusals + 1
          /\ front' \in stays /\ excused' = TRUE
  ELSE front' \in stays /\ UNCHANGED <<refusals, excused>>

Settle(keepFront, now, stays) ==
  pending' = None /\ GiveBack(pending, keepFront, now, stays)

Mut_SettleIf(n) == Settle(FALSE, front, {front})
(* Another menu's give-back stays held.                                    *)
SettleIf(n) ==
  IF pending # None /\ pending.menu = n THEN Settle(FALSE, front, {front})
  ELSE UNCHANGED <<pending, front, refusals, excused>>

(* ------------------------------- the menu ------------------------------ *)
(* show_tongue_menu: with no window in front there is nothing to arm.      *)
OpenMenu ==
  /\ menu = None /\ menus < MaxMenus
  /\ \A i \in 1..Len(queue) : queue[i].is # "item"
  /\ Reopens \/ (tasks = {} /\ queue = <<>>)
  /\ IF front = None
     THEN menu' = 0 /\ excused' = TRUE /\ UNCHANGED <<menus, pending>>
     ELSE /\ menus' = menus + 1 /\ menu' = menus + 1
          /\ pending' = [menu |-> menus + 1, previous |-> front]
          /\ excused' = (excused /\ front = Overlay)
  /\ front' = Overlay
  /\ UNCHANGED <<tasks, queue, opening, refusals>>

Mut_Closes(picked) ==
  /\ menu # None /\ menu' = None
  /\ queue' = queue \o picked
  /\ UNCHANGED <<menus, pending, tasks, opening, refusals, excused>>

(* popup returns: an item is on its way already, the task comes after it.  *)
Closes(picked) ==
  /\ menu # None /\ menu' = None
  /\ queue' = queue \o picked
  /\ tasks' = IF menu = 0 THEN tasks ELSE tasks \cup {menu}
  /\ UNCHANGED <<menus, pending, opening, refusals, excused>>

Pick == \E what \in {"window", "logs", "hide", "other"} : Closes(<<Item(what)>>) /\ UNCHANGED front
Escape == Closes(<<>>) /\ UNCHANGED front
ClickAway == Closes(<<>>) /\ front' \in Apps

TaskQueues ==
  \E n \in tasks :
    /\ tasks' = tasks \ {n} /\ queue' = Append(queue, Settlement(n))
    /\ UNCHANGED <<front, menu, menus, pending, opening, refusals, excused>>

(* ----------------------------- the event loop -------------------------- *)
Handles(event) == queue # <<>> /\ Head(queue) = event /\ queue' = Tail(queue)

(* One of our windows takes the front first; if it could not, the front    *)
(* still goes back.                                                        *)
OpensWindow ==
  /\ Handles(Item("window"))
  /\ \E now \in {front} \cup Ours : Settle(FALSE, now, {now})
  /\ UNCHANGED <<menu, menus, tasks, opening>>

Mut_OpensLogs ==
  /\ Handles(Item("logs"))
  /\ \E opened \in BOOLEAN :
       /\ opening' = (opened \/ opening) /\ Settle(TRUE, front, {front})
  /\ UNCHANGED <<menu, menus, tasks>>

(* The file manager opens in its own time: the front is kept for it.       *)
OpensLogs ==
  /\ Handles(Item("logs"))
  /\ \E opened \in BOOLEAN :
       /\ opening' = (opened \/ opening) /\ Settle(opened, front, {front})
  /\ UNCHANGED <<menu, menus, tasks>>

(* Anything else hands the front back before it runs; a hidden window that *)
(* was in front leaves it to the system.                                   *)
Hides ==
  /\ Handles(Item("hide"))
  /\ Settle(FALSE, front, IF front = Overlay THEN Apps \cup {None} ELSE {front})
  /\ UNCHANGED <<menu, menus, tasks, opening>>

Runs ==
  /\ Handles(Item("other"))
  /\ Settle(FALSE, front, {front})
  /\ UNCHANGED <<menu, menus, tasks, opening>>

SettlesMenu ==
  /\ \E n \in 1..menus : Handles(Settlement(n)) /\ SettleIf(n)
  /\ UNCHANGED <<menu, menus, tasks, opening>>

(* ------------------------- the user and the system --------------------- *)
FileManagerOpens ==
  /\ opening /\ opening' = FALSE /\ front' = Explorer
  /\ UNCHANGED <<menu, menus, pending, tasks, queue, refusals, excused>>

UserSwitches ==
  /\ menu = None /\ front' \in Apps \ {front}
  /\ UNCHANGED <<menu, menus, pending, tasks, queue, opening, refusals, excused>>

Next ==
  \/ OpenMenu \/ Pick \/ Escape \/ ClickAway \/ TaskQueues
  \/ OpensWindow \/ OpensLogs \/ Hides \/ Runs \/ SettlesMenu
  \/ FileManagerOpens \/ UserSwitches

Spec == Init /\ [][Next]_vars

(* ------------------------------ properties ----------------------------- *)
AtRest == menu = None /\ tasks = {} /\ queue = <<>> /\ ~opening

(* A give-back that is held will be settled: its menu is open, or the      *)
(* settlement of that menu is on its way.                                  *)
HeldIsSettled ==
  pending # None =>
    \/ menu = pending.menu \/ pending.menu \in tasks
    \/ \E i \in 1..Len(queue) : queue[i] = Settlement(pending.menu)

(* While a menu is open nothing of an earlier one takes the front from it. *)
OpenMenuKeepsFront ==
  [][(menu # None /\ menu' = menu /\ pending # None /\ ~(opening /\ ~opening')) => front' = front]_vars

(* Only the overlay's own activation is undone: whatever else came to the  *)
(* front since, by the user or by the item, stays there.                   *)
OthersKeepFront ==
  [][(front # Overlay /\ Len(queue') < Len(queue)) => front' \in {front} \cup Ours]_vars

(* Once a menu is dealt with the overlay is not left in front, unless the  *)
(* system refused or nothing was in front before.                          *)
FrontComesBack == AtRest => front # Overlay \/ excused

(* A front that is held for the menu is settled, and the window that was   *)
(* in front is again.                                                      *)
MenuInv ==
  /\ HeldIsSettled
  /\ FrontComesBack
=============================================================================
