---------------------------- MODULE ApprovalSide ----------------------------
(***************************************************************************)
(* What follows the queue (src-tauri/src/approval.rs changed,              *)
(* spawn_timeout, reveal, conceal, forget_reveal) and the card in the      *)
(* overlay's webview (approval.ts ArmClock, ApprovalCard.svelte): after    *)
(* every change of the queue somebody calls `changed`, which brings the    *)
(* hotkeys, the window, the timer and the card in line with it.            *)
(*                                                                         *)
(* `changed` holds the side lock throughout but locks the queue twice, so  *)
(* it is two steps with the queue free to move in between. Events to the   *)
(* card are delivered in order; the card's commands come back in any.      *)
(***************************************************************************)
EXTENDS ApprovalQueue

CONSTANT MaxChoices   \* bound: uses of the menu's show and hide

ChoiceAssumption == MaxChoices \in Nat

VARIABLES
  calls,        \* calls of `changed` not yet finished
  inChanged,    \* one of them holds the side lock, between its two looks
  keys,         \* Side::keys is Some
  revealed,     \* Side::revealed
  timerFor,     \* Side::timer_for, 0 for None
  timers,       \* timers[id]: spawn_timeout tasks running for id
  visible,      \* the overlay window is shown
  forgets,      \* spawned forget_reveal tasks
  wish,         \* history: shown or hidden, as the user last left it
  choices,      \* menu uses so far
  page,         \* +page.svelte: loading, asking approval_current, or ready
  current,      \* approval_current's answer, or NoAnswer
  heard,        \* approvalHeard
  events,       \* approval:changed on the way to the card, 0 for null
  card,         \* the request the card shows, 0 for none
  inView,       \* ArmClock: ticks its whole text has been in view, or Unseen
  reported,     \* the card has armed and said so
  reports,      \* approval_armed commands on their way
  seen          \* history: requests whose text was in view for ArmDelay

sideVars == <<calls, inChanged, keys, revealed, timerFor, timers, visible, forgets,
              wish, choices, events>>
cardVars == <<card, inView, reported, reports, seen>>
pageVars == <<page, current, heard>>
vars == <<queueVars, sideVars, cardVars, pageVars>>

Unseen == -1
NoAnswer == -1

Init ==
  /\ QueueInit
  /\ calls = 0 /\ inChanged = FALSE
  /\ keys = FALSE /\ revealed = FALSE
  /\ timerFor = 0 /\ timers = [id \in Id |-> 0]
  /\ visible \in BOOLEAN /\ wish = visible /\ forgets = 0 /\ choices = 0
  /\ page = "loading" /\ current = NoAnswer /\ heard = FALSE
  /\ events = <<>>
  /\ card = 0 /\ inView = Unseen /\ reported = FALSE /\ reports = {} /\ seen = {}

-----------------------------------------------------------------------------
(* Changes of the queue, each followed by a call of `changed`              *)

Calls == calls' = calls + 1

(* submit.                                                                 *)
Submit ==
  /\ Push
  /\ Calls
  /\ UNCHANGED <<inChanged, keys, revealed, timerFor, timers, visible, forgets, wish,
                 choices, events, cardVars, pageVars>>

(* answer, from a click or a hotkey; a refused answer changes nothing.     *)
TakeAnswer(id, decision) ==
  /\ Answer(id, decision)
  /\ Calls
  /\ UNCHANGED <<inChanged, keys, revealed, timerFor, timers, visible, forgets, wish,
                 choices, events, cardVars, pageVars>>

(* withdraw.                                                               *)
WithdrawOne(id) ==
  /\ Withdraw(id)
  /\ Calls
  /\ UNCHANGED <<inChanged, keys, revealed, timerFor, timers, visible, forgets, wish,
                 choices, events, cardVars, pageVars>>

(* spawn_timeout: the task sleeps to the deadline, then lapses its request *)
(* if that is still the one on screen.                                     *)
TimerFires(id) ==
  /\ timers[id] > 0
  /\ IsShown(id)
  /\ Expire
  /\ timers' = [timers EXCEPT ![id] = @ - 1]
  /\ Calls
  /\ UNCHANGED <<inChanged, keys, revealed, timerFor, visible, forgets, wish, choices,
                 events, cardVars, pageVars>>

(* spawn_timeout: its request has left the screen.                         *)
TimerEnds(id) ==
  /\ timers[id] > 0
  /\ ~IsShown(id)
  /\ timers' = [timers EXCEPT ![id] = @ - 1]
  /\ UNCHANGED <<queueVars, calls, inChanged, keys, revealed, timerFor, visible,
                 forgets, wish, choices, events, cardVars, pageVars>>

-----------------------------------------------------------------------------
(* changed                                                                 *)

(* The clock of a card that is off screen starts over.                     *)
Clock(shown) == IF shown \/ reported THEN inView ELSE Unseen

Mut_FollowQueue ==
  /\ calls > 0 /\ ~inChanged
  /\ inChanged' = TRUE
  /\ \/ /\ entries # <<>>
        /\ keys' = TRUE
        /\ revealed' = ~visible
        /\ visible' = TRUE
        /\ UNCHANGED <<timerFor, inView>>
     \/ /\ entries = <<>>
        /\ keys' = FALSE /\ revealed' = FALSE /\ timerFor' = 0
        /\ visible' = (visible /\ ~revealed)
        /\ inView' = Clock(visible')
  /\ UNCHANGED <<queueVars, calls, timers, forgets, wish, choices, events, card,
                 reported, reports, seen, pageVars>>

(* The first look: keys and window. With a request pending and no keys     *)
(* registered, register them and show a hidden overlay; with none pending, *)
(* undo both.                                                              *)
FollowQueue ==
  /\ calls > 0 /\ ~inChanged
  /\ inChanged' = TRUE
  /\ \/ /\ entries # <<>> /\ ~keys
        /\ keys' = TRUE
        /\ revealed' = ~visible
        /\ visible' = TRUE
        /\ UNCHANGED <<timerFor, inView>>
     \/ /\ entries # <<>> /\ keys
        /\ UNCHANGED <<keys, revealed, visible, timerFor, inView>>
     \/ /\ entries = <<>>
        /\ keys' = FALSE /\ revealed' = FALSE /\ timerFor' = 0
        /\ visible' = (visible /\ ~revealed)
        /\ inView' = Clock(visible')
  /\ UNCHANGED <<queueVars, calls, timers, forgets, wish, choices, events, card,
                 reported, reports, seen, pageVars>>

Mut_ShowCard ==
  /\ inChanged
  /\ inChanged' = FALSE
  /\ calls' = calls - 1
  /\ timerFor' = ShownId
  /\ UNCHANGED timers
  /\ events' = Append(events, ShownId)
  /\ UNCHANGED <<queueVars, keys, revealed, visible, forgets, wish, choices,
                 cardVars, pageVars>>

Mut_ShowCardAlwaysTimes ==
  /\ inChanged
  /\ inChanged' = FALSE
  /\ calls' = calls - 1
  /\ IF ShownId # 0
     THEN timers' = [timers EXCEPT ![ShownId] = @ + 1] /\ timerFor' = ShownId
     ELSE UNCHANGED <<timers, timerFor>>
  /\ events' = Append(events, ShownId)
  /\ UNCHANGED <<queueVars, keys, revealed, visible, forgets, wish, choices,
                 cardVars, pageVars>>

(* The second look: start a timeout for a request new on screen, and send  *)
(* the card, or null, to the overlay's page if it listens yet. An event    *)
(* equal to the last one on its way sets the same card and is left out.    *)
ShowCard ==
  /\ inChanged
  /\ inChanged' = FALSE
  /\ calls' = calls - 1
  /\ IF ShownId # 0 /\ timerFor # ShownId
     THEN /\ timerFor' = ShownId
          /\ timers' = [timers EXCEPT ![ShownId] = @ + 1]
     ELSE UNCHANGED <<timerFor, timers>>
  /\ events' = IF page = "loading" \/ (events # <<>> /\ Last(events) = ShownId)
               THEN events
               ELSE Append(events, ShownId)
  /\ UNCHANGED <<queueVars, keys, revealed, visible, forgets, wish, choices,
                 cardVars, pageVars>>

-----------------------------------------------------------------------------
(* The menu                                                                *)

(* run_menu_item "show" and "hide": forget_reveal is spawned, and the      *)
(* window shown or hidden.                                                 *)
Choose(show) ==
  /\ choices < MaxChoices
  /\ choices' = choices + 1
  /\ forgets' = forgets + 1
  /\ visible' = show
  /\ wish' = show
  /\ inView' = Clock(show)
  /\ UNCHANGED <<queueVars, calls, inChanged, keys, revealed, timerFor, timers, events,
                 card, reported, reports, seen, pageVars>>

(* The forget_reveal task, which waits for the side lock.                  *)
ForgetReveal ==
  /\ forgets > 0 /\ ~inChanged
  /\ forgets' = forgets - 1
  /\ revealed' = FALSE
  /\ UNCHANGED <<queueVars, calls, inChanged, keys, timerFor, timers, visible, wish,
                 choices, events, cardVars, pageVars>>

-----------------------------------------------------------------------------
(* The card                                                                *)

Mut_SetCardKeepsClock(id) ==
  /\ card' = id
  /\ IF id = card THEN UNCHANGED reported ELSE reported' = FALSE
  /\ UNCHANGED inView

(* A card is set. The island keys it by the request's id: a new id is a    *)
(* new card, with a fresh clock.                                           *)
SetCard(id) ==
  /\ card' = id
  /\ IF id = card
     THEN UNCHANGED <<inView, reported>>
     ELSE inView' = Unseen /\ reported' = FALSE

(* The page listens for approval:changed, and only then asks for the       *)
(* current card.                                                           *)
Listen ==
  /\ page = "loading"
  /\ page' = "asking"
  /\ UNCHANGED <<queueVars, sideVars, cardVars, current, heard>>

(* approval_current: under the side lock and the queue's.                  *)
AnswerCurrent ==
  /\ page = "asking" /\ current = NoAnswer
  /\ ~inChanged
  /\ current' = ShownId
  /\ UNCHANGED <<queueVars, sideVars, cardVars, page, heard>>

Mut_CurrentArrives ==
  /\ page = "asking" /\ current # NoAnswer
  /\ page' = "ready" /\ current' = NoAnswer
  /\ SetCard(current)
  /\ UNCHANGED <<queueVars, sideVars, reports, seen, heard>>

(* Its answer arrives, by another way than the events: one that came       *)
(* first wins.                                                             *)
CurrentArrives ==
  /\ page = "asking" /\ current # NoAnswer
  /\ page' = "ready" /\ current' = NoAnswer
  /\ IF heard THEN UNCHANGED <<card, inView, reported>> ELSE SetCard(current)
  /\ UNCHANGED <<queueVars, sideVars, reports, seen, heard>>

(* approval:changed arrives.                                               *)
CardArrives ==
  /\ events # <<>>
  /\ events' = Tail(events)
  /\ heard' = TRUE
  /\ SetCard(Head(events))
  /\ UNCHANGED <<queueVars, calls, inChanged, keys, revealed, timerFor, timers,
                 visible, forgets, wish, choices, reports, seen, page, current>>

(* The end of the text is in view, the card open and the page visible.     *)
TextInView ==
  /\ card # 0 /\ visible /\ inView = Unseen
  /\ inView' = 0
  /\ UNCHANGED <<queueVars, sideVars, card, reported, reports, seen, pageVars>>

(* ArmClock has run out: onArmed invokes approval_armed.                   *)
CardArms ==
  /\ card # 0 /\ inView = ArmDelay /\ ~reported
  /\ reported' = TRUE
  /\ reports' = reports \cup {card}
  /\ seen' = seen \cup {card}
  /\ UNCHANGED <<queueVars, sideVars, card, inView, pageVars>>

Mut_TakeReport(id) ==
  /\ id \in reports
  /\ reports' = reports \ {id}
  /\ IF entries # <<>> THEN Arm(ShownId) ELSE UNCHANGED queueVars
  /\ UNCHANGED <<sideVars, card, inView, reported, seen, pageVars>>

(* approval_armed: refused for a request that isn't on screen.             *)
TakeReport(id) ==
  /\ id \in reports
  /\ reports' = reports \ {id}
  /\ IF IsShown(id) THEN Arm(id) ELSE UNCHANGED queueVars
  /\ UNCHANGED <<sideVars, card, inView, reported, seen, pageVars>>

TimePasses ==
  /\ IF entries = <<>> THEN UNCHANGED queueVars ELSE Tick
  /\ inView' = IF inView \in 0 .. ArmDelay - 1 THEN inView + 1 ELSE inView
  /\ UNCHANGED <<sideVars, card, reported, reports, seen, pageVars>>

ChangedStep == FollowQueue \/ ShowCard

Next ==
  \/ Submit
  \/ \E id \in Id, decision \in {"allow", "deny"} : TakeAnswer(id, decision)
  \/ \E id \in Id : WithdrawOne(id) \/ TimerFires(id) \/ TimerEnds(id)
  \/ ChangedStep
  \/ \E show \in BOOLEAN : Choose(show)
  \/ ForgetReveal
  \/ Listen \/ AnswerCurrent \/ CurrentArrives
  \/ CardArrives \/ TextInView \/ CardArms
  \/ \E id \in reports : TakeReport(id)
  \/ TimePasses

(* Calls of `changed` finish, timers run, time passes.                     *)
Fairness ==
  /\ WF_vars(ChangedStep)
  /\ \A id \in Id : WF_vars(TimerFires(id))
  /\ WF_vars(TimePasses)

Spec == Init /\ [][Next]_vars /\ Fairness

-----------------------------------------------------------------------------
(* Properties                                                              *)

(* Types: a call under way is counted; cards and reports name requests.     *)
SideTypeOK ==
  /\ QueueTypeOK
  /\ calls \in Nat /\ inChanged \in BOOLEAN /\ (inChanged => calls > 0)
  /\ keys \in BOOLEAN /\ revealed \in BOOLEAN /\ visible \in BOOLEAN
  /\ wish \in BOOLEAN /\ choices \in 0 .. MaxChoices /\ forgets \in 0 .. choices
  /\ timerFor \in Id \cup {0} /\ timers \in [Id -> Nat]
  /\ page \in {"loading", "asking", "ready"} /\ heard \in BOOLEAN
  /\ current \in Id \cup {0, NoAnswer}
  /\ events \in Seq(Id \cup {0}) /\ card \in Id \cup {0}
  /\ inView \in {Unseen} \cup 0 .. ArmDelay /\ reported \in BOOLEAN
  /\ reports \subseteq Id /\ seen \subseteq Id

AtRest == calls = 0

(* Once every call of `changed` has returned, everything agrees with the   *)
(* queue, however the calls and the changes interleaved: the hotkeys are   *)
(* registered exactly while something is pending, one timer runs for the   *)
(* request on screen, and the overlay is not left marked as ours to hide.  *)
InLineWithQueue ==
  AtRest =>
    /\ keys <=> entries # <<>>
    /\ IF entries = <<>>
       THEN ~revealed
       ELSE timerFor = ShownId /\ timers[ShownId] = 1

(* And the card is that of the request on screen once nothing is on its    *)
(* way to it, though the page may load while requests come and go: its     *)
(* first look at the broker and the events race ("let any event that lands *)
(* first win").                                                            *)
CardInLine == AtRest /\ page = "ready" /\ events = <<>> => card = ShownId

(* Nothing is allowed whose whole text was not in view for ARM_DELAY on    *)
(* its own card: reports that come late, after the next request is on      *)
(* screen, arm nothing else (Queue::arm, "Only the request on screen can   *)
(* be armed").                                                             *)
AllowedWasSeen == \A id \in DOMAIN fate : fate[id] = "allow" => id \in seen

(* An armed request can be allowed: the card, which counts ARM_DELAY from  *)
(* the end of the text being in view, never tells the user Allow is ready  *)
(* while the core, which counts it from shown_at, would still refuse.      *)
ArmedCanBeAllowed == \A i \in DOMAIN entries : entries[i].armed => CanAllow(entries[i].id)

(* With nothing pending and every task done, the overlay is shown or       *)
(* hidden as the user left it: "that choice stands after the card closes"  *)
(* (forget_reveal), and an overlay shown for a card is hidden again.       *)
OverlayAsTheUserLeftIt ==
  AtRest /\ forgets = 0 /\ entries = <<>> => visible = wish

(* A request on screen that nobody answers lapses: whatever changed while  *)
(* its timer was started, one is running for it.                           *)
ShownRequestEnds == \A id \in Id : IsShown(id) ~> ~IsPending(id)
=============================================================================
