---------------------------- MODULE ApprovalKeys ----------------------------
(***************************************************************************)
(* The approval hotkeys (src-tauri/src/approval.rs on_key, spawn_hold,     *)
(* spawn_answer) and the hold of the Allow chord (the shared crate's Hold),*)
(* over the queue, while requests come and go and the card is clicked.     *)
(*                                                                         *)
(* The keyboard is the main key and the modifiers. As on_key's comment     *)
(* says of Windows: a press is a message the main thread handles, only     *)
(* then does a thread poll the main key (never the modifiers) for the      *)
(* release, and the release may come late or never. What on_key reads of   *)
(* the queue is used after the lock is let go, and what spawn_hold reads   *)
(* of the OS is used after the hold is locked: both are two steps.         *)
(***************************************************************************)
EXTENDS ApprovalQueue

CONSTANTS
  Hold,         \* HOLD
  MaxPresses,   \* bound: presses noted in a behaviour
  MaxInFlight   \* bound: key events on their way and threads polling

HoldAssumption == Hold \in Nat \ {0} /\ MaxPresses \in Nat /\ MaxInFlight \in Nat

VARIABLES
  mainDown,     \* the main key, physically
  modsDown,     \* Ctrl and Shift, physically
  upFor,        \* ticks since the chord was last all down
  messages,     \* hotkey messages on their way to the main thread
  pressing,     \* on_key between its two locks: id and `now`'s age
  pollers,      \* threads polling the main key for its release
  releases,     \* releases they are about to report
  presses,      \* Hold::presses
  held,         \* Hold::held
  looks,        \* the running spawn_hold tasks, and what each just read
  answers,      \* the running spawn_answer tasks
  pressedFor    \* history: pressedFor[press] is the request it was for

keyVars == <<mainDown, modsDown, upFor, messages, pressing, pollers, releases,
             presses, held, looks, answers, pressedFor>>
vars == <<queueVars, keyVars>>

Press == 1 .. MaxPresses
NoPress == [id |-> 0, age |-> 0]
NoHold == [press |-> 0, id |-> 0, age |-> 0]
ChordDown == mainDown /\ modsDown

Init ==
  /\ QueueInit
  /\ mainDown = FALSE /\ modsDown = FALSE /\ upFor = 1
  /\ messages = 0 /\ pressing = NoPress /\ pollers = 0 /\ releases = 0
  /\ presses = 0 /\ held = NoHold
  /\ looks = {} /\ answers = {}
  /\ pressedFor = <<>>

-----------------------------------------------------------------------------
(* The user's fingers                                                      *)

MoveMods ==
  /\ modsDown' = ~modsDown
  /\ upFor' = IF mainDown /\ ~modsDown THEN 0 ELSE upFor
  /\ UNCHANGED <<queueVars, mainDown, messages, pressing, pollers, releases,
                 presses, held, looks, answers, pressedFor>>

(* A hotkey message is sent when the main key goes down under the          *)
(* modifiers, if the hotkey is registered just then.                       *)
MoveMain ==
  /\ mainDown' = ~mainDown
  /\ upFor' = IF ~mainDown /\ modsDown THEN 0 ELSE upFor
  /\ messages' \in
       IF /\ ~mainDown /\ modsDown
          /\ messages + presses < MaxPresses
          /\ messages + pollers + releases < MaxInFlight
       THEN {messages, messages + 1}
       ELSE {messages}
  /\ UNCHANGED <<queueVars, modsDown, pressing, pollers, releases, presses, held,
                 looks, answers, pressedFor>>

-----------------------------------------------------------------------------
(* on_key                                                                  *)

(* Allow down: `now` is taken and the queue read. If Allow would not be    *)
(* taken, the card is nudged and nothing is held.                          *)
AllowDown ==
  /\ messages > 0
  /\ pressing = NoPress
  /\ messages' = messages - 1
  /\ IF CanAllow(ShownId)
     THEN pressing' = [id |-> ShownId, age |-> 0] /\ UNCHANGED pollers
     ELSE pollers' = pollers + 1 /\ UNCHANGED pressing
  /\ UNCHANGED <<queueVars, mainDown, modsDown, upFor, releases, presses, held,
                 looks, answers, pressedFor>>

(* Allow down, the queue let go: Hold::press, which replaces what was      *)
(* held, and spawn_hold. The plugin then starts polling for the release.   *)
NotePress ==
  /\ pressing # NoPress
  /\ presses < MaxPresses
  /\ presses' = presses + 1
  /\ held' = [press |-> presses', id |-> pressing.id, age |-> pressing.age]
  /\ looks' = looks \cup {[press |-> presses', saw |-> "nothing"]}
  /\ pressedFor' = Append(pressedFor, pressing.id)
  /\ pressing' = NoPress
  /\ pollers' = pollers + 1
  /\ UNCHANGED <<queueVars, mainDown, modsDown, upFor, messages, releases, answers>>

(* A polling thread sees the main key up. Its report may be lost.          *)
SeeRelease ==
  /\ pollers > 0
  /\ ~mainDown
  /\ pollers' = pollers - 1
  /\ releases' \in {releases, releases + 1}
  /\ UNCHANGED <<queueVars, mainDown, modsDown, upFor, messages, pressing, presses,
                 held, looks, answers, pressedFor>>

(* Allow up: Hold::release takes whatever is held.                         *)
AllowUp ==
  /\ releases > 0
  /\ releases' = releases - 1
  /\ held' = NoHold
  /\ UNCHANGED <<queueVars, mainDown, modsDown, upFor, messages, pressing, pollers,
                 presses, looks, answers, pressedFor>>

(* Deny down: answers the request on screen, on the async runtime. Bound:  *)
(* one such answer on its way at a time.                                   *)
DenyDown ==
  /\ ShownId # 0
  /\ \A task \in answers : task.decision = "allow"
  /\ answers' = answers \cup {[id |-> ShownId, decision |-> "deny", press |-> 0]}
  /\ UNCHANGED <<queueVars, mainDown, modsDown, upFor, messages, pressing, pollers,
                 releases, presses, held, looks, pressedFor>>

-----------------------------------------------------------------------------
(* spawn_hold                                                              *)

(* allow_chord_down: the keys as they are; up, too, when another desktop   *)
(* has the keyboard.                                                       *)
Look(task) ==
  /\ task \in looks
  /\ task.saw = "nothing"
  /\ \E seen \in IF ChordDown THEN {"down", "up"} ELSE {"up"} :
       looks' = (looks \ {task}) \cup {[task EXCEPT !.saw = seen]}
  /\ UNCHANGED <<queueVars, mainDown, modsDown, upFor, messages, pressing, pollers,
                 releases, presses, held, answers, pressedFor>>

Mut_AllowShownTask(hold) ==
  [id |-> ShownId, decision |-> "allow", press |-> hold.press]

(* HoldCheck::Allow: an answer for the request the chord was pressed for.  *)
AllowTask(hold) == [id |-> hold.id, decision |-> "allow", press |-> hold.press]

Mut_CheckTrustsRelease(task) ==
  /\ task \in looks
  /\ task.saw \in {"down", "up"}
  /\ LET mine == held.press = task.press
         done == mine /\ held.age >= Hold
     IN  /\ held' = IF done THEN NoHold ELSE held
         /\ looks' = (looks \ {task}) \cup
                     IF mine /\ ~done THEN {[task EXCEPT !.saw = "asleep"]} ELSE {}
         /\ answers' = answers \cup IF done THEN {AllowTask(held)} ELSE {}
  /\ UNCHANGED <<queueVars, mainDown, modsDown, upFor, messages, pressing, pollers,
                 releases, presses, pressedFor>>

Mut_CheckOnce(task) ==
  /\ task \in looks
  /\ task.saw \in {"down", "up"}
  /\ LET mine == held.press = task.press
         short == mine /\ task.saw = "up"
         done == mine /\ task.saw = "down" /\ held.age >= Hold
     IN  /\ held' = IF short \/ done THEN NoHold ELSE held
         /\ looks' = looks \ {task}
         /\ answers' = answers \cup IF done THEN {AllowTask(held)} ELSE {}
  /\ UNCHANGED <<queueVars, mainDown, modsDown, upFor, messages, pressing, pollers,
                 releases, presses, pressedFor>>

(* Hold::check: a key up ends the hold; held for HOLD, it allows, once;    *)
(* before that the task sleeps and looks again. A hold that was released   *)
(* or replaced ends the task.                                              *)
Check(task) ==
  /\ task \in looks
  /\ task.saw \in {"down", "up"}
  /\ LET mine == held.press = task.press
         short == mine /\ task.saw = "up"
         done == mine /\ task.saw = "down" /\ held.age >= Hold
     IN  /\ held' = IF short \/ done THEN NoHold ELSE held
         /\ looks' = (looks \ {task}) \cup
                     IF mine /\ ~short /\ ~done
                     THEN {[task EXCEPT !.saw = "asleep"]}
                     ELSE {}
         /\ answers' = answers \cup IF done THEN {AllowTask(held)} ELSE {}
  /\ UNCHANGED <<queueVars, mainDown, modsDown, upFor, messages, pressing, pollers,
                 releases, presses, pressedFor>>

(* spawn_answer: the broker checks the rules again; a refused answer       *)
(* changes nothing.                                                        *)
RunAnswer(task) ==
  /\ task \in answers
  /\ answers' = answers \ {task}
  /\ IF IsPending(task.id) /\ (task.decision = "allow" => CanAllow(task.id))
     THEN Answer(task.id, task.decision)
     ELSE UNCHANGED queueVars
  /\ UNCHANGED <<mainDown, modsDown, upFor, messages, pressing, pollers, releases,
                 presses, held, looks, pressedFor>>

-----------------------------------------------------------------------------
(* Everything else                                                         *)

(* Requests come, the card reports and is clicked, requests go.            *)
Others ==
  /\ \/ Push
     \/ \E id \in Id : Arm(id) \/ Withdraw(id)
     \/ \E id \in Id, decision \in {"allow", "deny"} : Answer(id, decision)
     \/ Expire
  /\ UNCHANGED keyVars

HoldAge(age) == IF age < Hold THEN age + 1 ELSE age

(* Time passes, but not between a look and its check, which are adjacent   *)
(* statements. A task that sleeps wakes.                                   *)
TimePasses ==
  /\ \A task \in looks : task.saw \in {"nothing", "asleep"}
  /\ looks' = {[task EXCEPT !.saw = "nothing"] : task \in looks}
  /\ IF entries = <<>> THEN UNCHANGED queueVars ELSE Tick
  /\ upFor' = IF ChordDown THEN 0 ELSE 1
  /\ held' = IF held = NoHold THEN held ELSE [held EXCEPT !.age = HoldAge(@)]
  /\ pressing' = IF pressing = NoPress
                 THEN pressing
                 ELSE [pressing EXCEPT !.age = HoldAge(@)]
  /\ UNCHANGED <<mainDown, modsDown, messages, pollers, releases, presses, answers,
                 pressedFor>>

Next ==
  \/ MoveMods \/ MoveMain
  \/ AllowDown \/ NotePress \/ SeeRelease \/ AllowUp \/ DenyDown
  \/ \E task \in looks : Look(task) \/ Check(task)
  \/ \E task \in answers : RunAnswer(task)
  \/ Others
  \/ TimePasses

(* Spawned tasks run and time passes; nobody has to touch the keyboard.    *)
Fairness ==
  /\ WF_vars(TimePasses)
  /\ \A press \in Press :
       /\ WF_vars(Look([press |-> press, saw |-> "nothing"]))
       /\ \A seen \in {"down", "up"} : WF_vars(Check([press |-> press, saw |-> seen]))

Spec == Init /\ [][Next]_vars /\ Fairness

-----------------------------------------------------------------------------
(* Properties                                                              *)

(* Types: every press that is held, looked at or answered was made.       *)
KeysTypeOK ==
  /\ QueueTypeOK
  /\ mainDown \in BOOLEAN /\ modsDown \in BOOLEAN /\ upFor \in 0 .. 1
  /\ messages \in Nat /\ releases \in Nat /\ pollers \in Nat
  /\ pressing \in [id : Id \cup {0}, age : 0 .. Hold]
  /\ presses \in 0 .. MaxPresses /\ Len(pressedFor) = presses
  /\ held \in [press : 0 .. presses, id : Id \cup {0}, age : 0 .. Hold]
  /\ looks \subseteq [press : 1 .. presses, saw : {"nothing", "down", "up", "asleep"}]
  /\ answers \subseteq [id : Id, decision : {"allow", "deny"}, press : 0 .. presses]

(* A hold allows the request the chord was pressed for, and no other: the  *)
(* card may have moved on to another request while the chord was held, and *)
(* the user has not agreed to that one (spawn_hold, HoldCheck::Allow).     *)
AllowsWhatWasPressedFor ==
  \A task \in answers : task.decision = "allow" => pressedFor[task.press] = task.id

(* A user who has let go of any key of the chord does not allow, whatever  *)
(* became of the release event: no hold finishes once the chord has been   *)
(* up for a tick (the doc of Hold: "a release that never comes would turn  *)
(* a tap into a hold").                                                    *)
LetGoNeverAllows ==
  [][(\E task \in answers' \ answers : task.decision = "allow") => upFor = 0]_vars

(* A press is not left waiting: every hold is allowed, found short,        *)
(* released or replaced.                                                   *)
EveryHoldEnds == \A press \in Press : held.press = press ~> held.press # press
=============================================================================
