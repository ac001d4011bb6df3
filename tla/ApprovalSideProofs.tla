------------------------- MODULE ApprovalSideProofs -------------------------
(***************************************************************************)
(* Proofs about what follows the approval queue, for every delay and every *)
(* number of requests and uses of the menu: whenever no call of `changed`  *)
(* is under way, the hotkeys, the timer and the card agree with the queue, *)
(* and nothing is allowed whose text was not in view.                      *)
(***************************************************************************)
EXTENDS ApprovalSide, ApprovalQueueProofs

(* Everything around the queue uses it as its own specification allows.    *)
LEMMA SideQueueStep ==
  ASSUME SideTypeOK, [Next]_vars
  PROVE  [QueueNext]_queueVars
<1>1. CASE Submit
  BY <1>1 DEF Submit, QueueNext
<1>2. ASSUME NEW id \in Id, NEW decision \in {"allow", "deny"}, TakeAnswer(id, decision)
      PROVE  [QueueNext]_queueVars
  BY <1>2 DEF TakeAnswer, QueueNext
<1>3. ASSUME NEW id \in Id, WithdrawOne(id) \/ TimerFires(id) \/ TimerEnds(id)
      PROVE  [QueueNext]_queueVars
  BY <1>3 DEF WithdrawOne, TimerFires, TimerEnds, QueueNext
<1>4. ASSUME NEW id \in reports, TakeReport(id)
      PROVE  [QueueNext]_queueVars
  BY <1>4 DEF TakeReport, QueueNext, SideTypeOK
<1>5. CASE TimePasses
  BY <1>5 DEF TimePasses, QueueNext
<1>6. CASE UNCHANGED queueVars
  BY <1>6
<1> QED
  BY <1>1, <1>2, <1>3, <1>4, <1>5, <1>6
     DEF Next, ChangedStep, FollowQueue, ShowCard, Choose, ForgetReveal, Listen,
         AnswerCurrent, CurrentArrives, CardArrives, TextInView, CardArms, vars

(* What a step of the queue does to its front and to who is in it: only a  *)
(* new request comes in, the front stays in front until it leaves, and a   *)
(* request takes its clock and its arming along.                           *)
LEMMA QueueMoves ==
  ASSUME QueueTypeOK, QueueInv, [QueueNext]_queueVars
  PROVE  /\ nextId \notin DOMAIN fate /\ DOMAIN fate \subseteq DOMAIN fate'
         /\ \A id : IsPending(id)' => IsPending(id) \/ id \notin DOMAIN fate
         /\ \A id : IsShown(id) /\ IsPending(id)' => IsShown(id)'
         /\ \A id : IsShown(id) /\ IsShown(id)'
                    => entries'[1].shown \in {entries[1].shown, Age(entries[1].shown)}
<1> USE DelayAssumption, BoundAssumption
<1> DEFINE Goal ==
      /\ \A id : IsPending(id)' => IsPending(id) \/ id \notin DOMAIN fate
      /\ \A id : IsShown(id) /\ IsPending(id)' => IsShown(id)'
      /\ \A id : IsShown(id) /\ IsShown(id)'
                 => entries'[1].shown \in {entries[1].shown, Age(entries[1].shown)}
<1>0. /\ entries \in Seq(Entry) /\ Len(entries) \in Nat
      /\ DOMAIN entries = 1 .. Len(entries)
      /\ (entries = <<>> <=> Len(entries) = 0)
      /\ DOMAIN fate = 1 .. nextId - 1 /\ nextId \in Nat
      /\ \A id : IsShown(id) => IsPending(id)
  <2>1. entries = <<>> <=> Len(entries) = 0
    BY EmptySeq DEF QueueTypeOK
  <2> QED BY <2>1, LenProperties DEF QueueTypeOK, IsShown, IsPending
<1>1. \A id \in DOMAIN fate : id \in DOMAIN fate'
  BY FatesStay
<1> SUFFICES Goal
  BY <1>0, <1>1
<1>2. CASE Push
  <2>1. /\ Len(entries') = Len(entries) + 1 /\ DOMAIN entries' = 1 .. Len(entries) + 1
        /\ \A i \in DOMAIN entries : entries'[i] = entries[i]
        /\ entries'[Len(entries) + 1].id = nextId
        /\ entries' # <<>>
    BY <1>0, <1>2 DEF Push
  <2>2. \A id : IsPending(id)' => IsPending(id) \/ id \notin DOMAIN fate
    BY <1>0, <2>1 DEF IsPending
  <2>3. \A id : IsShown(id) => IsShown(id)' /\ entries'[1].shown = entries[1].shown
    BY <1>0, <2>1 DEF IsShown
  <2> QED BY <2>2, <2>3
<1>3. ASSUME NEW id \in Id, Arm(id)
      PROVE  Goal
  <2>1. /\ DOMAIN entries' = DOMAIN entries /\ entries' # <<>>
        /\ \A i \in DOMAIN entries : /\ entries'[i].id = entries[i].id
                                     /\ entries'[i].shown = entries[i].shown
    <3>1. entries[1] \in Entry /\ 1 \in DOMAIN entries
      BY <1>0, <1>3, ElementOfSeq DEF Arm, IsShown
    <3>2. /\ entries' = [entries EXCEPT ![1] = [entries[1] EXCEPT !.armed = TRUE]]
          /\ [entries[1] EXCEPT !.armed = TRUE].id = entries[1].id
          /\ [entries[1] EXCEPT !.armed = TRUE].shown = entries[1].shown
      BY <1>3, <3>1 DEF Arm, Entry
    <3>3. DOMAIN entries' = DOMAIN entries
      BY <3>2
    <3>4. entries' # <<>>
      BY <1>0, <3>1, <3>3
    <3> QED BY <1>0, <3>1, <3>2, <3>3, <3>4
  <2>3. \A other : IsPending(other)' => IsPending(other)
    BY <2>1 DEF IsPending
  <2>4. \A other : IsShown(other) =>
          IsShown(other)' /\ entries'[1].shown = entries[1].shown
    BY <1>0, <2>1 DEF IsShown
  <2> QED BY <2>3, <2>4
<1>4. ASSUME NEW k \in DOMAIN entries, NEW how, Take(k, how)
      PROVE  Goal
  <2> DEFINE old(j) == IF j < k THEN j ELSE j + 1
  <2>1. /\ Len(entries') = Len(entries) - 1 /\ DOMAIN entries' = 1 .. Len(entries) - 1
        /\ (entries' = <<>> <=> Len(entries) - 1 = 0)
        /\ \A j \in DOMAIN entries' :
             /\ old(j) \in DOMAIN entries
             /\ entries'[j].id = entries[old(j)].id
             /\ entries'[j].shown = IF j = 1 /\ entries[old(j)].shown = NotShown
                                    THEN 0 ELSE entries[old(j)].shown
    <3>1. Len(entries') = Len(entries) - 1 /\ entries' \in Seq(Entry)
      BY <1>4, TakeKeepsTheOthers
    <3>2. DOMAIN entries' = 1 .. Len(entries) - 1 /\ (entries' = <<>> <=> Len(entries) - 1 = 0)
      BY <3>1, EmptySeq, LenProperties
    <3> QED BY <1>0, <1>4, <3>1, <3>2, TakeKeepsTheOthers
  <2>2. \A id : IsPending(id)' => IsPending(id)
    BY <2>1 DEF IsPending
  <2>3. ASSUME NEW id, IsShown(id), IsPending(id)'
        PROVE  IsShown(id)' /\ entries'[1].shown = entries[1].shown
    <3>1. PICK j \in DOMAIN entries' : entries[old(j)].id = id
      BY <2>1, <2>3 DEF IsPending
    <3>2. old(j) \in DOMAIN entries /\ 1 \in DOMAIN entries /\ entries[1].id = id
      BY <1>0, <2>1, <2>3 DEF IsShown
    <3>3. entries[old(j)].id = id /\ entries[1].id = id
      BY <3>1, <3>2
    <3>4. old(j) = 1
      <4>1. 1 < old(j) => entries[1].id < entries[old(j)].id
        BY <3>2 DEF QueueInv, OldestFirst
      <4>2. entries[1] \in Entry
        BY <1>0, <3>2, ElementOfSeq
      <4>3. entries[1].id \in Nat
        BY <4>2 DEF Entry, Id
      <4> QED BY <1>0, <3>2, <3>3, <4>1, <4>3
    <3>5. j = 1 /\ 1 < k
      BY <1>0, <2>1, <3>4
    <3>6. entries[1].shown # NotShown
      BY <3>2 DEF QueueInv, OnlyFrontShown
    <3> QED BY <1>0, <2>1, <3>2, <3>4, <3>5, <3>6 DEF IsShown
  <2>4. \A id : IsShown(id)' => IsPending(id)'
    BY <1>0, <2>1 DEF IsShown, IsPending
  <2> QED BY <2>2, <2>3, <2>4
<1>5. CASE Tick
  <2>1. /\ DOMAIN entries' = DOMAIN entries /\ entries' # <<>>
        /\ \A i \in DOMAIN entries : /\ entries'[i].id = entries[i].id
                                     /\ entries'[i].shown = Age(entries[i].shown)
    <3>1. \A i \in DOMAIN entries : entries[i] \in Entry
      BY <1>0, ElementOfSeq
    <3>2. DOMAIN entries' = DOMAIN entries
      BY <1>5 DEF Tick
    <3>3. entries' # <<>>
      BY <1>0, <1>5, <3>2 DEF Tick
    <3> QED BY <1>5, <3>1, <3>2, <3>3 DEF Tick, Entry
  <2>2. \A id : IsPending(id)' => IsPending(id)
    BY <2>1 DEF IsPending
  <2>3. \A id : IsShown(id) => IsShown(id)' /\ entries'[1].shown = Age(entries[1].shown)
    BY <1>0, <2>1 DEF IsShown
  <2> QED BY <2>2, <2>3
<1>6. CASE UNCHANGED queueVars
  <2>1. entries' = entries
    BY <1>6 DEF queueVars
  <2>2. \A id : (IsPending(id)' <=> IsPending(id)) /\ (IsShown(id)' <=> IsShown(id))
    BY <2>1 DEF IsPending, IsShown
  <2> QED BY <2>1, <2>2
<1>7. CASE Expire
  <2>1. 1 \in DOMAIN entries
    BY <1>0, <1>7 DEF Expire, IsDue
  <2>2. Take(1, "lapsed")
    BY <1>7 DEF Expire
  <2> HIDE DEF Goal
  <2> QED BY <1>4, <2>1, <2>2
<1> QED
  BY <1>2, <1>3, <1>4, <1>5, <1>6, <1>7 DEF QueueNext, Answer, Withdraw

-----------------------------------------------------------------------------
(* Nothing the card, the events or a report name is behind the front: what *)
(* was on screen once is on screen until it leaves the queue.              *)
WasShown(id) == id \in DOMAIN fate /\ (IsPending(id) => IsShown(id))

(* A call of `changed` past its first look with none behind it, or none    *)
(* under way: keys and window agree with the queue.                        *)
KeysFollow ==
  AtRest \/ (inChanged /\ calls = 1) =>
    /\ keys <=> entries # <<>>
    /\ entries = <<>> => ~revealed

(* One timer runs for the request it was started for while that is         *)
(* pending, and none for a request that was not on screen yet.             *)
TimerFollows ==
  /\ timerFor # 0 => timerFor \in DOMAIN fate
  /\ IsPending(timerFor) => IsShown(timerFor) /\ timers[timerFor] = 1
  /\ \A id \in Id \ {timerFor} :
       IsPending(id) \/ id \notin DOMAIN fate => timers[id] = 0
  /\ AtRest /\ entries # <<>> => timerFor = ShownId

(* What the card will show once the events on their way have arrived.      *)
LastWord == IF events = <<>> THEN card ELSE Last(events)

(* The page hears of the queue from the moment it listens: by an event, or *)
(* by the answer it asked for, whichever comes first.                      *)
CardFollows ==
  /\ page = "loading" => events = <<>> /\ ~heard /\ current = NoAnswer /\ card = 0
  /\ AtRest /\ (page = "ready" \/ (page = "asking" /\ (heard \/ events # <<>>)))
       => LastWord = ShownId
  /\ AtRest /\ page = "asking" /\ ~heard /\ events = <<>>
       => current \in {NoAnswer, ShownId}

(* What is armed was reported, and what is reported was in view.           *)
SeenFirst ==
  /\ reports \subseteq seen
  /\ \A i \in DOMAIN entries : entries[i].armed => entries[i].id \in seen
  /\ AllowedWasSeen

(* The card's clock never runs ahead of the core's.                        *)
ClocksAgree ==
  /\ \A i \in DOMAIN events : events[i] # 0 => WasShown(events[i])
  /\ \A id \in ({card, current} \cap Id) \cup reports : WasShown(id)
  /\ IsShown(card) => inView <= entries[1].shown
  /\ \A id \in reports : IsShown(id) => entries[1].shown >= ArmDelay
  /\ \A i \in DOMAIN entries : entries[i].armed => entries[1].shown >= ArmDelay

(* Until the menu is used, the overlay is up if the user left it up or if  *)
(* a card brought it up.                                                   *)
OverlayFollows ==
  choices = 0 =>
    /\ revealed => keys /\ ~wish
    /\ visible <=> wish \/ revealed

SideInv == /\ KeysFollow /\ TimerFollows /\ CardFollows
           /\ SeenFirst /\ ClocksAgree /\ OverlayFollows

-----------------------------------------------------------------------------
(* Types                                                                   *)

(* What the front and the events name is a request, or none.               *)
LEMMA ShownIdType ==
  ASSUME QueueTypeOK
  PROVE  /\ ShownId \in Id \cup {0} /\ (ShownId = 0 <=> entries = <<>>)
         /\ \A id \in Id : IsShown(id) <=> ShownId = id
         /\ ~IsShown(0) /\ ~IsPending(0)
         /\ \A id : IsShown(id) => IsPending(id) /\ id \in Id
         /\ \A id : IsPending(id) => id \in Id
<1>1. /\ entries # <<>> => 1 \in DOMAIN entries
      /\ \A i \in DOMAIN entries : entries[i] \in Entry
  BY EmptySeq, ElementOfSeq, LenProperties DEF QueueTypeOK
<1>2. \A i \in DOMAIN entries : entries[i].id \in Id
  BY <1>1 DEF Entry
<1>3. 0 \notin Id
  BY BoundAssumption DEF Id
<1> QED BY <1>1, <1>2, <1>3 DEF ShownId, IsShown, IsPending

(* The same, after a step.                                                 *)
LEMMA ShownIdTypeNext ==
  ASSUME QueueTypeOK'
  PROVE  /\ ShownId' \in Id \cup {0} /\ (ShownId' = 0 <=> entries' = <<>>)
         /\ \A id \in Id : IsShown(id)' <=> ShownId' = id
         /\ ~IsPending(0)'
         /\ \A id : IsShown(id)' => IsPending(id)' /\ id \in Id
<1>1. /\ entries' # <<>> => 1 \in DOMAIN entries'
      /\ \A i \in DOMAIN entries' : entries'[i] \in Entry
  BY EmptySeq, ElementOfSeq, LenProperties DEF QueueTypeOK
<1>2. \A i \in DOMAIN entries' : entries'[i].id \in Id
  BY <1>1 DEF Entry
<1>3. 0 \notin Id
  BY BoundAssumption DEF Id
<1> QED BY <1>1, <1>2, <1>3 DEF ShownId, IsShown, IsPending

(* Arming and time leave every request where it is.                        *)
LEMMA ReportsKeepShown ==
  ASSUME QueueTypeOK, Tick \/ (\E id : Arm(id))
  PROVE  /\ ShownId' = ShownId /\ entries # <<>> /\ entries' # <<>> /\ fate' = fate
         /\ \A id : (IsPending(id)' <=> IsPending(id)) /\ (IsShown(id)' <=> IsShown(id))
<1>1. /\ DOMAIN entries = 1 .. Len(entries) /\ Len(entries) \in Nat
      /\ \A i \in DOMAIN entries : entries[i] \in Entry
      /\ entries # <<>> /\ 1 \in DOMAIN entries
  BY EmptySeq, ElementOfSeq, LenProperties DEF QueueTypeOK, Tick, Arm, IsShown
<1>2. DOMAIN entries' = DOMAIN entries
      /\ (\A i \in DOMAIN entries : entries'[i].id = entries[i].id)
  BY <1>1 DEF Tick, Arm, Entry
<1>3. entries' # <<>> /\ fate' = fate
  BY <1>1, <1>2 DEF Tick, Arm
<1> QED BY <1>1, <1>2, <1>3 DEF ShownId, IsPending, IsShown

(* Every step keeps the types.                                             *)
LEMMA SideTypeStep ==
  ASSUME ChoiceAssumption, SideTypeOK, QueueInv, [Next]_vars
  PROVE  SideTypeOK'
<1> USE DelayAssumption, BoundAssumption, ChoiceAssumption
<1>1. QueueTypeOK'
  BY SideQueueStep, StepTypeOK DEF SideTypeOK, QueueInv
<1>0. calls \in Nat /\ choices \in 0 .. MaxChoices /\ forgets \in 0 .. choices
  BY DEF SideTypeOK
<1>2. ShownId \in Id \cup {0}
  BY ShownIdType DEF SideTypeOK
<1>3. \A shown : Clock(shown) \in {Unseen, inView}
  BY DEF Clock
<1>4. \A id \in Id \cup {0} : SetCard(id) =>
        /\ card' \in Id \cup {0} /\ inView' \in {Unseen} \cup 0 .. ArmDelay
        /\ reported' \in BOOLEAN
  BY DEF SetCard, SideTypeOK
<1>5. CASE Submit \/ (\E id \in Id, decision \in {"allow", "deny"} : TakeAnswer(id, decision))
             \/ (\E id \in Id : WithdrawOne(id))
  <2>1. /\ calls' = calls + 1
        /\ UNCHANGED <<inChanged, keys, revealed, timerFor, timers, visible, forgets, wish,
                       choices, events, cardVars, pageVars>>
    BY <1>5 DEF Submit, TakeAnswer, WithdrawOne, Calls
  <2> QED BY <1>1, <2>1 DEF SideTypeOK, cardVars, pageVars
<1>6. ASSUME NEW id \in Id, TimerFires(id) \/ TimerEnds(id)
      PROVE  SideTypeOK'
  <2>1. /\ timers[id] - 1 \in Nat /\ timers' = [timers EXCEPT ![id] = timers[id] - 1]
        /\ calls' \in {calls, calls + 1}
        /\ UNCHANGED <<inChanged, keys, revealed, timerFor, visible, forgets, wish,
                       choices, events, cardVars, pageVars>>
    BY <1>6 DEF TimerFires, TimerEnds, Calls, SideTypeOK
  <2>2. timers' \in [Id -> Nat]
    BY <2>1 DEF SideTypeOK
  <2> QED BY <1>1, <2>1, <2>2 DEF SideTypeOK, cardVars, pageVars
<1>7. CASE FollowQueue
  <2>1. /\ calls > 0 /\ inChanged' = TRUE
        /\ UNCHANGED <<calls, timers, forgets, wish, choices, events, card,
                       reported, reports, seen, pageVars>>
    BY <1>7 DEF FollowQueue
  <2>2. /\ keys' \in BOOLEAN /\ revealed' \in BOOLEAN /\ visible' \in BOOLEAN
        /\ timerFor' \in {timerFor, 0} /\ inView' \in {inView, Unseen}
    BY <1>3, <1>7 DEF FollowQueue, SideTypeOK
  <2> QED BY <1>1, <2>1, <2>2 DEF SideTypeOK, pageVars
<1>8. CASE ShowCard
  <2>1. /\ inChanged' = FALSE /\ calls' = calls - 1 /\ calls > 0
        /\ UNCHANGED <<keys, revealed, visible, forgets, wish, choices, cardVars, pageVars>>
    BY <1>8 DEF ShowCard, SideTypeOK
  <2>2. timerFor' \in Id \cup {0} /\ timers' \in [Id -> Nat]
    BY <1>2, <1>8, SMTT(30) DEF ShowCard, SideTypeOK
  <2>3. events' \in Seq(Id \cup {0})
    BY <1>2, <1>8 DEF ShowCard, SideTypeOK
  <2>4. calls' \in Nat
    BY <1>0, <2>1
  <2>5. inChanged' \in BOOLEAN /\ ~inChanged'
    BY <2>1
  <2> QED BY <1>1, <2>1, <2>2, <2>3, <2>4, <2>5 DEF SideTypeOK, cardVars, pageVars
<1>9. ASSUME NEW show \in BOOLEAN, Choose(show)
      PROVE  SideTypeOK'
  <2>1. /\ choices' = choices + 1 /\ forgets' = forgets + 1 /\ choices < MaxChoices
        /\ visible' = show /\ wish' = show /\ inView' \in {inView, Unseen}
        /\ UNCHANGED <<calls, inChanged, keys, revealed, timerFor, timers, events,
                       card, reported, reports, seen, pageVars>>
    BY <1>3, <1>9 DEF Choose
  <2>2. choices' \in 0 .. MaxChoices /\ forgets' \in 0 .. choices'
    <3>1. choices' = choices + 1 /\ forgets' = forgets + 1 /\ choices < MaxChoices
      BY <2>1
    <3> QED BY <1>0, <3>1 DEF ChoiceAssumption
  <2>3. visible' \in BOOLEAN /\ wish' \in BOOLEAN
    BY <2>1
  <2> QED BY <1>1, <2>1, <2>2, <2>3 DEF SideTypeOK, pageVars
<1>10. CASE ForgetReveal
  <2>1. forgets' \in 0 .. choices
    BY <1>10 DEF ForgetReveal, SideTypeOK
  <2>2. revealed' \in BOOLEAN
    BY <1>10 DEF ForgetReveal
  <2> QED BY <1>1, <1>10, <2>1, <2>2 DEF ForgetReveal, SideTypeOK, cardVars, pageVars
<1>11. CASE Listen \/ AnswerCurrent
  BY <1>1, <1>2, <1>11 DEF Listen, AnswerCurrent, SideTypeOK, sideVars, cardVars
<1>12. CASE CurrentArrives
  <2>1. /\ page' = "ready" /\ current' = NoAnswer /\ current \in Id \cup {0}
        /\ UNCHANGED <<queueVars, sideVars, reports, seen, heard>>
    BY <1>12 DEF CurrentArrives, SideTypeOK
  <2>2. /\ card' \in Id \cup {0} /\ inView' \in {Unseen} \cup 0 .. ArmDelay
        /\ reported' \in BOOLEAN
    BY <1>4, <1>12, <2>1 DEF CurrentArrives, SideTypeOK
  <2> QED BY <1>1, <2>1, <2>2 DEF SideTypeOK, sideVars
<1>13. CASE CardArrives
  <2>1. Head(events) \in Id \cup {0} /\ Tail(events) \in Seq(Id \cup {0})
    BY <1>13, HeadTailProperties DEF CardArrives, SideTypeOK
  <2>2. /\ card' \in Id \cup {0} /\ inView' \in {Unseen} \cup 0 .. ArmDelay
        /\ reported' \in BOOLEAN
    BY <1>4, <1>13, <2>1 DEF CardArrives
  <2> QED BY <1>1, <1>13, <2>1, <2>2 DEF CardArrives, SideTypeOK
<1>14. CASE TextInView \/ CardArms
  <2>1. inView' \in {Unseen} \cup 0 .. ArmDelay /\ reports' \subseteq Id /\ seen' \subseteq Id
    BY <1>14 DEF TextInView, CardArms, SideTypeOK
  <2>2. reported' \in BOOLEAN
    BY <1>14 DEF TextInView, CardArms, SideTypeOK
  <2> QED BY <1>1, <1>14, <2>1, <2>2
          DEF TextInView, CardArms, SideTypeOK, sideVars, pageVars
<1>15. ASSUME NEW id \in reports, TakeReport(id)
       PROVE  SideTypeOK'
  BY <1>1, <1>15 DEF TakeReport, SideTypeOK, sideVars, pageVars
<1>16. CASE TimePasses
  <2>1. inView' \in {Unseen} \cup 0 .. ArmDelay
    BY <1>16 DEF TimePasses, SideTypeOK
  <2> QED BY <1>1, <1>16, <2>1 DEF TimePasses, SideTypeOK, sideVars, pageVars
<1>17. CASE UNCHANGED vars
  BY <1>1, <1>17 DEF SideTypeOK, vars, sideVars, cardVars, pageVars
<1> QED BY <1>5, <1>6, <1>7, <1>8, <1>9, <1>10, <1>11, <1>12, <1>13, <1>14, <1>15,
           <1>16, <1>17 DEF Next, ChangedStep

-----------------------------------------------------------------------------
(* Each part is kept                                                       *)

(* What was on screen stays so until it leaves, and while it is there its  *)
(* clock only goes forward.                                                *)
LEMMA WasShownStays ==
  ASSUME QueueTypeOK, QueueInv, [QueueNext]_queueVars, NEW id, WasShown(id)
  PROVE  /\ WasShown(id)'
         /\ IsShown(id)' => IsShown(id) /\ entries'[1].shown >= entries[1].shown
<1>1. id \in DOMAIN fate'
  BY QueueMoves DEF WasShown
<1>2. IsPending(id)' => IsPending(id)
  BY QueueMoves DEF WasShown
<1>3. IsPending(id)' => IsShown(id)'
  BY <1>2, QueueMoves DEF WasShown
<1>4. IsShown(id)' => IsPending(id)'
  BY StepTypeOK, ShownIdTypeNext DEF QueueInv
<1>5. ASSUME IsShown(id)'
      PROVE  IsShown(id) /\ entries'[1].shown >= entries[1].shown
  <2>1. IsShown(id)
    BY <1>2, <1>4, <1>5 DEF WasShown
  <2>2. entries'[1].shown \in {entries[1].shown, Age(entries[1].shown)}
    BY <1>5, <2>1, QueueMoves
  <2>3. entries[1].shown \in Int
    <3>1. entries[1] \in Entry
      BY <2>1, EmptySeq, ElementOfSeq, LenProperties DEF QueueTypeOK, IsShown
    <3> QED BY <3>1, DelayAssumption DEF Entry, NotShown
  <2> QED BY <2>1, <2>2, <2>3, DelayAssumption DEF Age
<1> QED BY <1>1, <1>3, <1>5 DEF WasShown

(* What a step can do to the side's record of the queue: every change of   *)
(* the queue counts a call of `changed`, and what leaves it alone or only  *)
(* arms or ages it does not.                                               *)
LEMMA KeysStep ==
  ASSUME SideTypeOK, QueueInv, KeysFollow, [Next]_vars
  PROVE  KeysFollow'
<1>0. calls \in Nat /\ (inChanged => calls > 0) /\ inChanged \in BOOLEAN
  BY DEF SideTypeOK
<1>1. CASE calls' = calls + 1 /\ inChanged' = inChanged
  BY <1>0, <1>1 DEF KeysFollow, AtRest
<1>2. CASE UNCHANGED <<calls, inChanged, keys, revealed>> /\ (entries' = <<>> <=> entries = <<>>)
  BY <1>2 DEF KeysFollow, AtRest
<1>3. CASE FollowQueue
  BY <1>0, <1>3 DEF FollowQueue, KeysFollow, AtRest, queueVars
<1>4. CASE ShowCard
  BY <1>0, <1>4 DEF ShowCard, KeysFollow, AtRest, queueVars
<1>5. CASE ForgetReveal
  BY <1>0, <1>5 DEF ForgetReveal, KeysFollow, AtRest, queueVars
<1>6. ASSUME NEW id \in reports, TakeReport(id)
      PROVE  KeysFollow'
  <2>1. entries' = <<>> <=> entries = <<>>
    BY <1>6 DEF TakeReport, Arm, IsShown, queueVars
  <2> QED BY <1>2, <1>6, <2>1 DEF TakeReport, sideVars
<1>7. CASE TimePasses
  <2>1. entries' = <<>> <=> entries = <<>>
    BY <1>7 DEF TimePasses, Tick, queueVars
  <2> QED BY <1>2, <1>7, <2>1 DEF TimePasses, sideVars
<1>8. CASE Submit \/ (\E id \in Id, decision \in {"allow", "deny"} : TakeAnswer(id, decision))
             \/ (\E id \in Id : WithdrawOne(id) \/ TimerFires(id))
  BY <1>1, <1>8 DEF Submit, TakeAnswer, WithdrawOne, TimerFires, Calls
<1>9. CASE UNCHANGED <<queueVars, calls, inChanged, keys, revealed>>
  BY <1>2, <1>9 DEF queueVars
<1> QED
  BY <1>3, <1>4, <1>5, <1>6, <1>7, <1>8, <1>9
     DEF Next, ChangedStep, TimerEnds, Choose, Listen, AnswerCurrent, CurrentArrives,
         CardArrives, TextInView, CardArms, vars, sideVars

(* One timer per request: a step of the queue leaves the timer's request   *)
(* where it is or takes it away, and the task that runs for it ends only   *)
(* once its request has left the screen.                                   *)
LEMMA TimerStep ==
  ASSUME SideTypeOK, QueueInv, TimerFollows, [Next]_vars
  PROVE  TimerFollows'
<1>0. /\ calls \in Nat /\ timers \in [Id -> Nat] /\ timerFor \in Id \cup {0}
      /\ (inChanged => calls > 0)
      /\ 0 \notin Id /\ QueueTypeOK
  BY BoundAssumption DEF SideTypeOK, Id
<1>1. /\ \A id : IsPending(id)' => IsPending(id) \/ id \notin DOMAIN fate
      /\ \A id : IsShown(id) /\ IsPending(id)' => IsShown(id)'
      /\ \A id : id \in DOMAIN fate => id \in DOMAIN fate'
      /\ ~IsPending(0)' /\ ~IsPending(0)
      /\ QueueTypeOK' /\ QueueInv'
      /\ (ShownId = 0 <=> entries = <<>>) /\ (ShownId' = 0 <=> entries' = <<>>)
      /\ ShownId \in Id \cup {0} /\ \A id \in Id : IsShown(id) <=> ShownId = id
      /\ \A id : IsPending(id) => id \in DOMAIN fate
  <2>1. [QueueNext]_queueVars
    BY SideQueueStep
  <2>2. QueueTypeOK' /\ QueueInv'
    BY <1>0, <2>1, StepTypeOK, StepInv DEF QueueInv
  <2> QED BY <1>0, <2>1, <2>2, QueueMoves, ShownIdType, ShownIdTypeNext, FrontIsOldest
<1>2. ASSUME timerFor' = timerFor,
             \A id \in Id : \/ timers'[id] = timers[id]
                            \/ ~IsPending(id)' /\ id \in DOMAIN fate',
             \/ calls' # 0
             \/ calls' = calls /\ ShownId' = ShownId
      PROVE  TimerFollows'
  <2>1. timerFor' # 0 => timerFor' \in DOMAIN fate'
    BY <1>1, <1>2 DEF TimerFollows
  <2>2. ASSUME IsPending(timerFor)'
        PROVE  IsShown(timerFor)' /\ timers'[timerFor'] = 1
    <3>1. PICK id : id = timerFor /\ IsPending(id)'
      BY <1>2, <2>2 DEF IsPending
    <3>2. id # 0 /\ IsPending(id)
      BY <1>1, <3>1 DEF TimerFollows
    <3>3. IsShown(id) /\ timers[id] = 1 /\ id \in Id
      BY <1>0, <3>1, <3>2 DEF TimerFollows
    <3>4. IsShown(id)' /\ timers'[id] = 1
      BY <1>1, <1>2, <3>1, <3>3
    <3> QED BY <1>2, <3>1, <3>4 DEF IsShown
  <2>3. ASSUME NEW id \in Id \ {timerFor'}, IsPending(id)' \/ id \notin DOMAIN fate'
        PROVE  timers'[id] = 0
    BY <1>1, <1>2, <2>3 DEF TimerFollows
  <2>4. AtRest' /\ entries' # <<>> => timerFor' = ShownId'
    BY <1>1, <1>2 DEF AtRest, TimerFollows
  <2> QED BY <2>1, <2>2, <2>3, <2>4 DEF TimerFollows
<1>3. CASE Submit \/ (\E id \in Id, decision \in {"allow", "deny"} : TakeAnswer(id, decision))
             \/ (\E id \in Id : WithdrawOne(id))
  BY <1>0, <1>2, <1>3 DEF Submit, TakeAnswer, WithdrawOne, Calls
<1>4. ASSUME NEW id \in Id, TimerFires(id)
      PROVE  TimerFollows'
  <2>1. calls' = calls + 1 /\ timerFor' = timerFor
        /\ (\A other \in Id : other # id => timers'[other] = timers[other])
    BY <1>0, <1>4 DEF TimerFires, Calls
  <2>2. ~IsPending(id)' /\ id \in DOMAIN fate'
    <3>1. 1 \in DOMAIN entries /\ Take(1, "lapsed") /\ entries[1].id = id
      BY <1>0, <1>4, EmptySeq, LenProperties DEF TimerFires, IsShown, Expire, QueueTypeOK
    <3>2. id \in DOMAIN fate /\ fate' = [fate EXCEPT ![id] = "lapsed"]
      BY <1>0, <3>1, TakeChangesOne
    <3> QED BY <1>1, <3>2 DEF QueueInv, OldestFirst
  <2> QED BY <1>0, <1>2, <2>1, <2>2
<1>5. ASSUME NEW id \in Id, TimerEnds(id)
      PROVE  TimerFollows'
  <2>1. /\ UNCHANGED <<entries, fate, calls, timerFor, ShownId>>
        /\ \A other \in Id : other # id => timers'[other] = timers[other]
    BY <1>0, <1>5 DEF TimerEnds, queueVars, ShownId
  <2>2. ~IsPending(id) /\ id \in DOMAIN fate
    BY <1>0, <1>5 DEF TimerEnds, TimerFollows
  <2>3. ~IsPending(id)' /\ id \in DOMAIN fate'
    BY <2>1, <2>2 DEF IsPending
  <2> QED BY <1>2, <2>1, <2>3
<1>6. CASE FollowQueue
  <2>1. CASE entries # <<>>
    BY <1>0, <1>2, <1>6, <2>1 DEF FollowQueue
  <2>2. CASE entries = <<>>
    <3>1. /\ entries' = <<>> /\ fate' = fate /\ timers' = timers /\ timerFor' = 0
          /\ \A id : ~IsPending(id) /\ ~IsPending(id)'
      BY <1>6, <2>2 DEF FollowQueue, queueVars, IsPending
    <3>2. \A id \in Id : id \notin DOMAIN fate => timers[id] = 0
      BY <1>0, <3>1 DEF TimerFollows
    <3> QED BY <1>1, <3>1, <3>2 DEF TimerFollows
  <2> QED BY <2>1, <2>2
<1>7. CASE ShowCard
  <2>0. UNCHANGED <<entries, fate, ShownId>> /\ \A id : IsPending(id)' <=> IsPending(id)
    BY <1>7 DEF ShowCard, queueVars, ShownId, IsPending
  <2>1. CASE ShownId # 0 /\ timerFor # ShownId
    <3>1. /\ timerFor' = ShownId /\ IsShown(ShownId) /\ IsPending(ShownId)
          /\ ShownId \in Id
      BY <1>0, <1>1, <1>7, <2>1, ShownIdType DEF ShowCard
    <3>2. timers' = [timers EXCEPT ![ShownId] = timers[ShownId] + 1]
      BY <1>7, <2>1 DEF ShowCard
    <3>3. timers'[ShownId] = 1 /\ \A id \in Id \ {ShownId} : timers'[id] = timers[id]
      BY <1>0, <2>1, <3>1, <3>2 DEF TimerFollows
    <3>4. ~IsPending(timerFor)
      BY <1>0, <1>1, <2>1 DEF TimerFollows
    <3>5. timerFor # 0 => timerFor \in DOMAIN fate
      BY DEF TimerFollows
    <3>6. \A id \in Id \ {ShownId} : IsPending(id) \/ id \notin DOMAIN fate => timers[id] = 0
      BY <1>0, <3>4, <3>5 DEF TimerFollows
    <3>7. ShownId \in DOMAIN fate /\ IsShown(timerFor)'
      BY <1>1, <2>0, <3>1 DEF IsShown
    <3> QED BY <2>0, <3>1, <3>3, <3>6, <3>7 DEF TimerFollows
  <2>2. CASE ~(ShownId # 0 /\ timerFor # ShownId)
    <3>1. timerFor' = timerFor /\ timers' = timers
      BY <1>7, <2>2 DEF ShowCard
    <3>2. timerFor # 0 => timerFor \in DOMAIN fate
      BY DEF TimerFollows
    <3>3. IsPending(timerFor)' => IsShown(timerFor)' /\ timers'[timerFor'] = 1
      BY <2>0, <3>1 DEF TimerFollows, IsShown, IsPending
    <3>4. \A id \in Id \ {timerFor} : IsPending(id) \/ id \notin DOMAIN fate => timers[id] = 0
      BY DEF TimerFollows
    <3>5. entries' # <<>> => timerFor' = ShownId'
      BY <1>1, <2>0, <2>2, <3>1
    <3> QED BY <2>0, <3>1, <3>2, <3>3, <3>4, <3>5 DEF TimerFollows
  <2> QED BY <2>1, <2>2
<1>8. ASSUME NEW id \in reports, TakeReport(id)
      PROVE  TimerFollows'
  <2>1. ShownId' = ShownId
    <3>1. CASE Arm(id)
      BY <1>0, <3>1, ReportsKeepShown
    <3>2. CASE UNCHANGED queueVars
      BY <3>2 DEF queueVars, ShownId
    <3> QED BY <1>8, <3>1, <3>2 DEF TakeReport
  <2> QED BY <1>2, <1>8, <2>1 DEF TakeReport, sideVars
<1>9. CASE TimePasses
  <2>1. ShownId' = ShownId
    BY <1>0, <1>9, ReportsKeepShown DEF TimePasses, queueVars, ShownId
  <2> QED BY <1>2, <1>9, <2>1 DEF TimePasses, sideVars
<1>10. CASE UNCHANGED <<queueVars, calls, timerFor, timers>>
  BY <1>2, <1>10 DEF queueVars, ShownId
<1> QED
  BY <1>3, <1>4, <1>5, <1>6, <1>7, <1>8, <1>9, <1>10
     DEF Next, ChangedStep, Choose, ForgetReveal, Listen, AnswerCurrent, CurrentArrives,
         CardArrives, TextInView, CardArms, vars, sideVars

(* Taking the first event off leaves the last one last.                    *)
LEMMA LastOfTail ==
  ASSUME NEW S, NEW s \in Seq(S), s # <<>>
  PROVE  Last(s) = IF Tail(s) = <<>> THEN Head(s) ELSE Last(Tail(s))
<1>1. /\ Len(s) \in Nat /\ Len(s) # 0 /\ Tail(s) \in Seq(S) /\ Len(Tail(s)) = Len(s) - 1
      /\ \A i \in 1 .. Len(s) - 1 : Tail(s)[i] = s[i + 1]
      /\ Head(s) = s[1]
  BY EmptySeq, LenProperties, HeadTailProperties
<1>2. Tail(s) = <<>> <=> Len(s) - 1 = 0
  BY <1>1, EmptySeq
<1> QED BY <1>1, <1>2 DEF Last

(* The card: every way a request can reach it ends with the queue's last   *)
(* word.                                                                   *)
LEMMA CardStep ==
  ASSUME SideTypeOK, QueueInv, CardFollows, [Next]_vars
  PROVE  CardFollows'
<1>0. /\ calls \in Nat /\ (inChanged => calls > 0)
      /\ events \in Seq(Id \cup {0}) /\ QueueTypeOK
  BY DEF SideTypeOK
<1>1. CASE calls' = calls + 1 /\ UNCHANGED <<page, current, heard, events, card>>
  BY <1>0, <1>1 DEF CardFollows, AtRest
<1>2. CASE UNCHANGED <<calls, page, current, heard, events, card, ShownId>>
  BY <1>2 DEF CardFollows, AtRest, LastWord
<1>3. CASE ShowCard
  <2>1. UNCHANGED <<page, current, heard, card, ShownId>>
    BY <1>3 DEF ShowCard, queueVars, cardVars, pageVars, ShownId
  <2>2. CASE page = "loading"
    BY <1>3, <2>1, <2>2 DEF ShowCard, CardFollows
  <2>3. CASE page # "loading"
    <3>1. events' # <<>> /\ Last(events') = ShownId
      <4>1. CASE events # <<>> /\ Last(events) = ShownId
        BY <1>3, <2>3, <4>1 DEF ShowCard
      <4>2. CASE ~(events # <<>> /\ Last(events) = ShownId)
        <5>1. events' = Append(events, ShownId)
          BY <1>3, <2>3, <4>2 DEF ShowCard
        <5>2. ShownId \in Id \cup {0}
          BY <1>0, ShownIdType
        <5>3. /\ events' \in Seq(Id \cup {0}) /\ Len(events') = Len(events) + 1
              /\ events'[Len(events) + 1] = ShownId /\ Len(events) \in Nat
          BY <1>0, <5>1, <5>2, AppendProperties, LenProperties
        <5> QED BY <5>3, EmptySeq DEF Last
      <4> QED BY <4>1, <4>2
    <3> QED BY <2>1, <2>3, <3>1 DEF CardFollows, LastWord
  <2> QED BY <2>2, <2>3
<1>4. CASE Listen
  BY <1>4 DEF Listen, sideVars, cardVars, CardFollows
<1>5. CASE AnswerCurrent
  <2>1. UNCHANGED <<calls, page, heard, events, card, ShownId>> /\ page = "asking"
        /\ current' = ShownId
    BY <1>5 DEF AnswerCurrent, queueVars, sideVars, cardVars, ShownId
  <2> QED BY <2>1 DEF CardFollows, AtRest, LastWord
<1>6. CASE CurrentArrives
  <2>1. /\ UNCHANGED <<calls, heard, events, ShownId>> /\ page = "asking" /\ page' = "ready"
        /\ current # NoAnswer /\ card' = (IF heard THEN card ELSE current)
    BY <1>6 DEF CurrentArrives, SetCard, queueVars, sideVars, ShownId
  <2> QED BY <2>1 DEF CardFollows, AtRest, LastWord
<1>7. CASE CardArrives
  <2>1. /\ UNCHANGED <<calls, page, current, ShownId>> /\ heard' = TRUE /\ events # <<>>
        /\ events' = Tail(events) /\ card' = Head(events)
    BY <1>7 DEF CardArrives, SetCard, queueVars, ShownId
  <2>2. LastWord' = LastWord
    BY <1>0, <2>1, LastOfTail DEF LastWord
  <2> QED BY <2>1, <2>2 DEF CardFollows, AtRest
<1>8. CASE Submit \/ (\E id \in Id, decision \in {"allow", "deny"} : TakeAnswer(id, decision))
             \/ (\E id \in Id : WithdrawOne(id) \/ TimerFires(id))
  BY <1>1, <1>8 DEF Submit, TakeAnswer, WithdrawOne, TimerFires, Calls, cardVars, pageVars
<1>9. ASSUME NEW id \in reports, TakeReport(id)
      PROVE  CardFollows'
  <2>1. ShownId' = ShownId
    BY <1>0, <1>9, ReportsKeepShown DEF TakeReport, queueVars, ShownId
  <2> QED BY <1>2, <1>9, <2>1 DEF TakeReport, sideVars, pageVars
<1>10. CASE TimePasses
  <2>1. ShownId' = ShownId
    BY <1>0, <1>10, ReportsKeepShown DEF TimePasses, queueVars, ShownId
  <2> QED BY <1>2, <1>10, <2>1 DEF TimePasses, sideVars, pageVars
<1>11. CASE UNCHANGED <<queueVars, calls, pageVars, events, card>>
  BY <1>2, <1>11 DEF queueVars, pageVars, ShownId
<1> QED
  BY <1>3, <1>4, <1>5, <1>6, <1>7, <1>8, <1>9, <1>10, <1>11
     DEF Next, ChangedStep, FollowQueue, TimerEnds, Choose, ForgetReveal, TextInView,
         CardArms, vars, sideVars, cardVars

(* Only a report arms: whatever else happens to the queue, a request armed *)
(* after it was armed before it.                                           *)
LEMMA NothingElseArms ==
  ASSUME QueueTypeOK,
         \/ Push \/ Tick \/ UNCHANGED queueVars
         \/ \E i \in DOMAIN entries, how \in Fate : Take(i, how)
  PROVE  \A k \in DOMAIN entries' : entries'[k].armed =>
           \E j \in DOMAIN entries : entries[j].id = entries'[k].id /\ entries[j].armed
<1>1. /\ DOMAIN entries = 1 .. Len(entries) /\ Len(entries) \in Nat
      /\ \A i \in DOMAIN entries : entries[i] \in Entry
  BY ElementOfSeq, LenProperties DEF QueueTypeOK
<1>2. CASE Push
  <2>1. /\ DOMAIN entries' = 1 .. Len(entries) + 1
        /\ \A i \in DOMAIN entries : entries'[i] = entries[i]
        /\ entries'[Len(entries) + 1].armed = FALSE
    BY <1>1, <1>2 DEF Push, QueueTypeOK
  <2> QED BY <1>1, <2>1
<1>3. CASE Tick
  <2>1. DOMAIN entries' = DOMAIN entries
    BY <1>3 DEF Tick
  <2>2. \A i \in DOMAIN entries : /\ entries'[i].id = entries[i].id
                                  /\ entries'[i].armed = entries[i].armed
    BY <1>1, <1>3 DEF Tick, Entry
  <2> QED BY <2>1, <2>2
<1>4. CASE UNCHANGED queueVars
  BY <1>4 DEF queueVars
<1>5. ASSUME NEW i \in DOMAIN entries, NEW how \in Fate, Take(i, how),
             NEW k \in DOMAIN entries', entries'[k].armed
      PROVE  \E j \in DOMAIN entries : entries[j].id = entries'[k].id /\ entries[j].armed
  <2> DEFINE j == IF k < i THEN k ELSE k + 1
  <2>1. Len(entries') = Len(entries) - 1 /\ entries' \in Seq(Entry)
    BY <1>5, TakeKeepsTheOthers
  <2>2. k \in 1 .. Len(entries) - 1
    BY <1>5, <2>1, LenProperties
  <2>3. j \in DOMAIN entries
    BY <1>1, <2>2
  <2>4. entries'[k].id = entries[j].id /\ entries'[k].armed = entries[j].armed
    BY <1>5, <2>2, TakeKeepsTheOthers
  <2> QED BY <1>5, <2>3, <2>4
<1> QED BY <1>2, <1>3, <1>4, <1>5

(* What a step can arm or allow: only the request whose report it takes,   *)
(* only the armed request on screen.                                       *)
LEMMA SeenStep ==
  ASSUME SideTypeOK, QueueInv, SeenFirst, [Next]_vars
  PROVE  SeenFirst'
<1>0. QueueTypeOK /\ [QueueNext]_queueVars /\ QueueTypeOK'
  BY SideQueueStep, StepTypeOK DEF SideTypeOK, QueueInv
<1>1. seen \subseteq seen' /\ reports' \subseteq seen'
  <2>1. CASE CardArms
    BY <2>1 DEF CardArms, SeenFirst
  <2>2. ASSUME NEW id \in reports, TakeReport(id)
        PROVE  seen' = seen /\ reports' \subseteq reports
    BY <2>2 DEF TakeReport
  <2>3. CASE UNCHANGED <<reports, seen>>
    BY <2>3 DEF SeenFirst
  <2> QED BY <2>1, <2>2, <2>3
      DEF Next, Submit, TakeAnswer, WithdrawOne, TimerFires, TimerEnds, ChangedStep,
          FollowQueue, ShowCard, Choose, ForgetReveal, Listen, AnswerCurrent,
          CurrentArrives, CardArrives, TextInView, TimePasses, vars, cardVars, SeenFirst
<1>2. ASSUME \A k \in DOMAIN entries' : entries'[k].armed =>
               \/ entries'[k].id \in seen
               \/ \E j \in DOMAIN entries : entries[j].id = entries'[k].id /\ entries[j].armed,
             \A id \in DOMAIN fate' : fate'[id] = "allow" =>
               id \in seen \/ (id \in DOMAIN fate /\ fate[id] = "allow")
      PROVE  SeenFirst'
  BY <1>1, <1>2 DEF SeenFirst, AllowedWasSeen
<1>3. CASE Submit
  <2>1. Push /\ \A id \in DOMAIN fate' : fate'[id] = "allow" =>
                  id \in DOMAIN fate /\ fate[id] = "allow"
    BY <1>0, <1>3 DEF Submit, Push, QueueTypeOK
  <2> QED BY <1>0, <1>2, <2>1, NothingElseArms
<1>4. ASSUME NEW i \in DOMAIN entries, NEW how \in Fate, Take(i, how),
             how = "allow" => entries[i].id \in seen
      PROVE  SeenFirst'
  <2>1. fate' = [fate EXCEPT ![entries[i].id] = how]
    BY <1>4 DEF Take
  <2> QED BY <1>0, <1>2, <1>4, <2>1, NothingElseArms
<1>5. ASSUME NEW id \in Id, NEW decision \in {"allow", "deny"}, TakeAnswer(id, decision)
      PROVE  SeenFirst'
  <2>1. PICK i \in DOMAIN entries : entries[i].id = id /\ Take(i, decision)
    BY <1>5 DEF TakeAnswer, Answer
  <2>2. ASSUME decision = "allow"
        PROVE  id \in seen
    <3>1. entries # <<>> /\ entries[1].id = id /\ entries[1].armed
      BY <1>5, <2>2 DEF TakeAnswer, Answer, CanAllow, IsShown
    <3>2. 1 \in DOMAIN entries
      BY <1>0, <3>1, EmptySeq, LenProperties DEF QueueTypeOK
    <3> QED BY <3>1, <3>2 DEF SeenFirst
  <2> QED BY <1>4, <2>1, <2>2 DEF Fate
<1>6. ASSUME NEW id \in Id, WithdrawOne(id)
      PROVE  SeenFirst'
  <2>1. PICK i \in DOMAIN entries : Take(i, "withdrawn")
    BY <1>6 DEF WithdrawOne, Withdraw
  <2> QED BY <1>4, <2>1 DEF Fate
<1>7. ASSUME NEW id \in Id, TimerFires(id)
      PROVE  SeenFirst'
  <2>1. 1 \in DOMAIN entries /\ Take(1, "lapsed")
    BY <1>0, <1>7, EmptySeq, LenProperties DEF TimerFires, IsShown, Expire, QueueTypeOK
  <2> QED BY <1>4, <2>1 DEF Fate
<1>8. ASSUME NEW id \in reports, TakeReport(id)
      PROVE  SeenFirst'
  <2>1. CASE IsShown(id)
    <3>1. Arm(id) /\ id \in seen /\ entries[1].id = id
      BY <1>8, <2>1 DEF TakeReport, SeenFirst, IsShown
    <3>2. /\ 1 \in DOMAIN entries
          /\ \A i \in DOMAIN entries : entries[i] \in Entry
      BY <1>0, <2>1, EmptySeq, ElementOfSeq, LenProperties DEF QueueTypeOK, IsShown
    <3>3. /\ DOMAIN entries' = DOMAIN entries /\ fate' = fate
          /\ \A i \in DOMAIN entries : /\ entries'[i].id = entries[i].id
                                       /\ i # 1 => entries'[i].armed = entries[i].armed
      BY <3>1, <3>2 DEF Arm, Entry
    <3> QED BY <1>2, <3>1, <3>2, <3>3
  <2>2. CASE ~IsShown(id)
    <3>1. UNCHANGED queueVars
      BY <1>8, <2>2 DEF TakeReport
    <3> QED BY <1>2, <3>1 DEF queueVars
  <2> QED BY <2>1, <2>2
<1>9. CASE TimePasses
  <2>1. Tick \/ UNCHANGED queueVars
    BY <1>9 DEF TimePasses
  <2>2. fate' = fate
    BY <2>1 DEF Tick, queueVars
  <2> QED BY <1>0, <1>2, <2>1, <2>2, NothingElseArms
<1>10. CASE UNCHANGED queueVars
  BY <1>2, <1>10 DEF queueVars
<1> QED
  BY <1>3, <1>5, <1>6, <1>7, <1>8, <1>9, <1>10
     DEF Next, ChangedStep, FollowQueue, ShowCard, TimerEnds, Choose, ForgetReveal, Listen,
         AnswerCurrent, CurrentArrives, CardArrives, TextInView, CardArms, vars

(* Who a step names is, or was, on screen.                                 *)
LEMMA NamedWasShown ==
  ASSUME SideTypeOK, QueueInv, ClocksAgree, [Next]_vars, NEW id \in Id,
         \/ id \in {card', current'} \cup reports'
         \/ \E i \in DOMAIN events' : events'[i] = id
  PROVE  WasShown(id)
<1>0. /\ QueueTypeOK /\ events \in Seq(Id \cup {0}) /\ ShownId \in Id \cup {0}
      /\ 0 \notin Id /\ NoAnswer \notin Id /\ id # 0
  BY ShownIdType, BoundAssumption DEF SideTypeOK, Id, NoAnswer
<1> DEFINE Named == \/ id \in {card, current} \cup reports
                    \/ \E i \in DOMAIN events : events[i] = id
<1>1. Named => WasShown(id)
  BY <1>0 DEF ClocksAgree
<1>2. id = ShownId => WasShown(id)
  BY <1>0, ShownIdType, FrontIsOldest DEF WasShown
<1>3. SUFFICES Named \/ id = ShownId
  BY <1>1, <1>2
<1>4. CASE ShowCard
  <2>1. UNCHANGED <<card, current, reports>>
    BY <1>4 DEF ShowCard, cardVars, pageVars
  <2>2. CASE events' = events
    BY <2>1, <2>2
  <2>3. CASE events' = Append(events, ShownId)
    <3>1. \A i \in DOMAIN events' :
            events'[i] = ShownId \/ (i \in DOMAIN events /\ events'[i] = events[i])
      BY <1>0, <2>3, AppendProperties, LenProperties
    <3> QED BY <2>1, <3>1
  <2> QED BY <1>4, <2>2, <2>3 DEF ShowCard
<1>5. CASE CardArrives
  <2>1. /\ UNCHANGED <<current, reports>> /\ card' = Head(events) /\ events # <<>>
        /\ events' = Tail(events)
    BY <1>5 DEF CardArrives, SetCard
  <2>2. /\ 1 \in DOMAIN events /\ Head(events) = events[1]
        /\ \A i \in DOMAIN Tail(events) :
             i + 1 \in DOMAIN events /\ Tail(events)[i] = events[i + 1]
    <3>1. /\ Len(events) \in Nat /\ Len(events) # 0 /\ DOMAIN events = 1 .. Len(events)
          /\ Tail(events) \in Seq(Id \cup {0}) /\ Len(Tail(events)) = Len(events) - 1
          /\ \A i \in 1 .. Len(events) - 1 : Tail(events)[i] = events[i + 1]
          /\ Head(events) = events[1]
      BY <1>0, <2>1, EmptySeq, LenProperties, HeadTailProperties
    <3>2. DOMAIN Tail(events) = 1 .. Len(events) - 1
      BY <3>1, LenProperties
    <3> QED BY <3>1, <3>2
  <2> QED BY <2>1, <2>2
<1>6. CASE CurrentArrives
  <2>1. UNCHANGED <<events, reports>> /\ current' = NoAnswer /\ card' \in {card, current}
    BY <1>6 DEF CurrentArrives, SetCard, sideVars
  <2> QED BY <1>0, <2>1
<1>7. CASE AnswerCurrent
  BY <1>7 DEF AnswerCurrent, sideVars, cardVars
<1>8. CASE CardArms
  BY <1>8 DEF CardArms, sideVars, pageVars
<1>9. ASSUME NEW other \in reports, TakeReport(other)
      PROVE  Named
  BY <1>9 DEF TakeReport, sideVars, pageVars
<1>10. CASE UNCHANGED <<card, current, events, reports>>
  BY <1>10
<1> QED
  BY <1>4, <1>5, <1>6, <1>7, <1>8, <1>9, <1>10
     DEF Next, Submit, TakeAnswer, WithdrawOne, TimerFires, TimerEnds, ChangedStep,
         FollowQueue, Choose, ForgetReveal, Listen, TextInView, TimePasses, vars,
         sideVars, cardVars, pageVars

(* The two clocks: the card's starts when its text comes into view, the    *)
(* core's when the request comes on screen, which is never later.          *)
LEMMA ClocksStep ==
  ASSUME SideTypeOK, SideTypeOK', QueueInv, ClocksAgree, [Next]_vars
  PROVE  ClocksAgree'
<1> USE DelayAssumption DEF Unseen
<1>0. /\ QueueTypeOK /\ [QueueNext]_queueVars /\ QueueTypeOK' /\ QueueInv'
      /\ inView \in {Unseen} \cup 0 .. ArmDelay /\ card \in Id \cup {0} /\ reports \subseteq Id
  <2>1. [QueueNext]_queueVars
    BY SideQueueStep
  <2> QED BY <2>1, StepTypeOK, StepInv DEF SideTypeOK, QueueInv
<1>1. /\ \A id : IsShown(id) => entries[1].shown \in 0 .. Timeout
      /\ entries' # <<>> => entries'[1].shown \in 0 .. Timeout
      /\ \A id : IsShown(id) => id \in Id /\ WasShown(id)
  <2>1. entries # <<>> => 1 \in DOMAIN entries /\ entries[1] \in Entry
    BY <1>0, EmptySeq, ElementOfSeq, LenProperties DEF QueueTypeOK
  <2>2. entries' # <<>> => 1 \in DOMAIN entries' /\ entries'[1] \in Entry
    BY <1>0, EmptySeq, ElementOfSeq, LenProperties DEF QueueTypeOK
  <2>3. entries # <<>> => entries[1].shown \in 0 .. Timeout
    BY <2>1 DEF QueueInv, OnlyFrontShown, Entry
  <2>4. entries' # <<>> => entries'[1].shown \in 0 .. Timeout
    BY <1>0, <2>2 DEF QueueInv, OnlyFrontShown, Entry
  <2> QED BY <1>0, <2>3, <2>4, ShownIdType, FrontIsOldest DEF IsShown, WasShown
<1>2. \A id : WasShown(id) =>
        /\ WasShown(id)'
        /\ IsShown(id)' => IsShown(id) /\ entries'[1].shown >= entries[1].shown
  BY <1>0, WasShownStays
<1>3. \A id \in Id :
        \/ id \in {card', current'} \cup reports'
        \/ \E i \in DOMAIN events' : events'[i] = id
        => WasShown(id) /\ WasShown(id)'
  BY <1>2, NamedWasShown
<1>4. (\A i \in DOMAIN events : events[i] # 0 => WasShown(events[i]))'
  <2>1. SUFFICES ASSUME NEW i \in DOMAIN events', events'[i] # 0
                 PROVE  WasShown(events[i])'
    OBVIOUS
  <2>2. events'[i] \in Id
    BY <2>1, ElementOfSeq, LenProperties DEF SideTypeOK
  <2>3. PICK id \in Id : id = events'[i] /\ WasShown(id)'
    BY <1>3, <2>2
  <2> QED BY <2>3 DEF WasShown, IsPending, IsShown
<1>5. (\A id \in ({card, current} \cap Id) \cup reports : WasShown(id))'
  BY <1>3 DEF SideTypeOK
<1>6. (IsShown(card) => inView <= entries[1].shown)'
  <2>1. SUFFICES ASSUME IsShown(card)'
                 PROVE  inView' <= entries'[1].shown
    OBVIOUS
  <2>2. entries' # <<>> /\ entries'[1].shown \in 0 .. Timeout
    BY <1>1, <2>1 DEF IsShown
  <2>3. PICK id : id = card' /\ IsShown(id)'
    BY <2>1 DEF IsShown
  <2>4. id \in Id /\ IsShown(id) /\ entries'[1].shown >= entries[1].shown
    <3>1. id \in Id
      BY <1>0, <2>3, ShownIdTypeNext
    <3>2. WasShown(id)
      BY <1>3, <2>3, <3>1
    <3> QED BY <1>2, <2>3, <3>1, <3>2
  <2>5. entries[1].shown \in 0 .. Timeout
    BY <1>1, <2>4
  <2>6. CASE inView' = Unseen \/ inView' = 0
    BY <2>2, <2>6
  <2>7. CASE card' = card /\ inView' = inView
    <3>1. inView <= entries[1].shown
      BY <2>3, <2>4, <2>7 DEF ClocksAgree
    <3> QED BY <1>0, <2>2, <2>4, <2>5, <2>7, <3>1
  <2>8. CASE TimePasses
    <3>1. card' = card /\ inView' = IF inView \in 0 .. ArmDelay - 1 THEN inView + 1 ELSE inView
      BY <2>8 DEF TimePasses
    <3>2. inView <= entries[1].shown
      BY <2>3, <2>4, <3>1 DEF ClocksAgree
    <3>3. entries # <<>> /\ Tick
      BY <2>4, <2>8 DEF TimePasses, IsShown
    <3>4. entries'[1].shown = Age(entries[1].shown)
      <4>1. 1 \in DOMAIN entries /\ entries[1] \in Entry
        BY <1>0, <3>3, EmptySeq, ElementOfSeq, LenProperties DEF QueueTypeOK
      <4> QED BY <3>3, <4>1 DEF Tick, Entry
    <3> QED BY <1>0, <2>2, <2>5, <3>1, <3>2, <3>4 DEF Age
  <2>9. ASSUME NEW other \in Id \cup {0, NoAnswer}, SetCard(other)
        PROVE  inView' <= entries'[1].shown
    BY <2>6, <2>7, <2>9 DEF SetCard
  <2>10. CASE CurrentArrives
    BY <2>7, <2>9, <2>10 DEF CurrentArrives, SideTypeOK
  <2>11. CASE CardArrives
    <3>1. Head(events) \in Id \cup {0}
      BY <2>11, HeadTailProperties DEF CardArrives, SideTypeOK
    <3> QED BY <2>9, <2>11, <3>1 DEF CardArrives
  <2>12. CASE FollowQueue
    BY <2>6, <2>7, <2>12 DEF FollowQueue, Clock
  <2>13. ASSUME NEW show \in BOOLEAN, Choose(show)
         PROVE  inView' <= entries'[1].shown
    BY <2>6, <2>7, <2>13 DEF Choose, Clock
  <2>14. CASE TextInView
    BY <2>6, <2>14 DEF TextInView
  <2>15. ASSUME NEW other \in reports, TakeReport(other)
         PROVE  inView' <= entries'[1].shown
    BY <2>7, <2>15 DEF TakeReport
  <2>16. CASE UNCHANGED <<card, inView>>
    BY <2>7, <2>16
  <2> QED
    BY <2>8, <2>10, <2>11, <2>12, <2>13, <2>14, <2>15, <2>16
       DEF Next, Submit, TakeAnswer, WithdrawOne, TimerFires, TimerEnds, ChangedStep,
           ShowCard, ForgetReveal, Listen, AnswerCurrent, CardArms, vars, cardVars
<1>7. (\A id \in reports : IsShown(id) => entries[1].shown >= ArmDelay)'
  <2>1. SUFFICES ASSUME NEW id \in reports', IsShown(id)'
                 PROVE  entries'[1].shown >= ArmDelay
    OBVIOUS
  <2>2. id \in Id /\ WasShown(id)
    BY <1>3, <2>1 DEF SideTypeOK
  <2>3. IsShown(id) /\ entries'[1].shown >= entries[1].shown
    BY <1>2, <2>1, <2>2
  <2>4. entries[1].shown \in 0 .. Timeout /\ entries'[1].shown \in 0 .. Timeout
    BY <1>1, <2>1, <2>3 DEF IsShown
  <2>5. id \in reports => entries[1].shown >= ArmDelay
    BY <2>3 DEF ClocksAgree
  <2>6. CardArms /\ id = card => entries[1].shown >= ArmDelay
    BY <2>3, <2>4 DEF CardArms, ClocksAgree
  <2>7. id \in reports \/ (CardArms /\ id = card)
    <3>1. CASE CardArms
      BY <3>1 DEF CardArms
    <3>2. ASSUME NEW other \in reports, TakeReport(other)
          PROVE  id \in reports
      BY <3>2 DEF TakeReport
    <3>3. CASE UNCHANGED reports
      BY <3>3
    <3> QED
      BY <3>1, <3>2, <3>3
         DEF Next, Submit, TakeAnswer, WithdrawOne, TimerFires, TimerEnds, ChangedStep,
             FollowQueue, ShowCard, Choose, ForgetReveal, Listen, AnswerCurrent,
             CurrentArrives, CardArrives, TextInView, TimePasses, vars, cardVars
  <2> QED BY <2>3, <2>4, <2>5, <2>6, <2>7
<1>8. (\A i \in DOMAIN entries : entries[i].armed => entries[1].shown >= ArmDelay)'
  <2>1. SUFFICES ASSUME NEW k \in DOMAIN entries', entries'[k].armed
                 PROVE  entries'[1].shown >= ArmDelay
    OBVIOUS
  <2>2. k = 1 /\ entries' # <<>>
    BY <1>0, <2>1, EmptySeq, LenProperties DEF QueueInv, OnlyFrontArmed, QueueTypeOK
  <2>3. PICK id : id = entries'[1].id /\ IsShown(id)'
    BY <2>2 DEF IsShown
  <2>4. ASSUME NEW j \in DOMAIN entries, entries[j].id = id, entries[j].armed
        PROVE  entries'[1].shown >= ArmDelay
    <3>1. j = 1 /\ IsShown(id) /\ entries[1].shown >= ArmDelay
      BY <1>0, <2>4, EmptySeq, LenProperties, SMTT(30)
         DEF QueueInv, OnlyFrontArmed, IsShown, ClocksAgree, QueueTypeOK
    <3>2. entries'[1].shown >= entries[1].shown
      BY <1>1, <1>2, <2>3, <3>1
    <3> QED BY <1>1, <2>2, <3>1, <3>2
  <2>5. CASE \/ Push \/ Tick \/ UNCHANGED queueVars
             \/ \E i \in DOMAIN entries, how \in Fate : Take(i, how)
    BY <1>0, <2>1, <2>2, <2>3, <2>4, <2>5, NothingElseArms
  <2>6. ASSUME NEW report \in reports, TakeReport(report), IsShown(report)
        PROVE  entries'[1].shown >= ArmDelay
    <3>1. Arm(report) /\ entries[1].shown >= ArmDelay
      BY <2>6 DEF TakeReport, ClocksAgree
    <3>2. 1 \in DOMAIN entries /\ entries[1] \in Entry
      BY <1>0, <2>6, EmptySeq, ElementOfSeq, LenProperties DEF QueueTypeOK, IsShown
    <3>3. entries'[1].shown = entries[1].shown
      BY <3>1, <3>2 DEF Arm, Entry
    <3> QED BY <3>1, <3>3
  <2>7. ASSUME NEW report \in reports, TakeReport(report)
        PROVE  entries'[1].shown >= ArmDelay
    BY <2>5, <2>6, <2>7 DEF TakeReport
  <2>8. ASSUME NEW other \in Id, NEW decision \in {"allow", "deny"},
               TakeAnswer(other, decision)
        PROVE  entries'[1].shown >= ArmDelay
    BY <2>5, <2>8 DEF TakeAnswer, Answer, Fate
  <2>9. ASSUME NEW other \in Id, WithdrawOne(other)
        PROVE  entries'[1].shown >= ArmDelay
    BY <2>5, <2>9 DEF WithdrawOne, Withdraw, Fate
  <2>10. ASSUME NEW other \in Id, TimerFires(other)
         PROVE  entries'[1].shown >= ArmDelay
    <3>1. 1 \in DOMAIN entries /\ Take(1, "lapsed")
      BY <1>0, <2>10, EmptySeq, LenProperties DEF TimerFires, IsShown, Expire, QueueTypeOK
    <3> QED BY <2>5, <3>1 DEF Fate
  <2>11. CASE Submit \/ TimePasses
    BY <2>5, <2>11 DEF Submit, TimePasses
  <2> QED
    BY <2>5, <2>7, <2>8, <2>9, <2>10, <2>11
       DEF Next, ChangedStep, FollowQueue, ShowCard, TimerEnds, Choose, ForgetReveal,
           Listen, AnswerCurrent, CurrentArrives, CardArrives, TextInView, CardArms, vars
<1> QED BY <1>4, <1>5, <1>6, <1>7, <1>8 DEF ClocksAgree

(* Until the menu is used, the overlay is shown or hidden only for a card. *)
LEMMA OverlayStep ==
  ASSUME ChoiceAssumption, SideTypeOK, OverlayFollows, [Next]_vars
  PROVE  OverlayFollows'
<1>0. choices \in Nat /\ revealed \in BOOLEAN /\ visible \in BOOLEAN /\ wish \in BOOLEAN
  BY DEF SideTypeOK, ChoiceAssumption
<1>1. CASE FollowQueue
  <2>1. SUFFICES ASSUME choices = 0
                 PROVE  /\ revealed' => keys' /\ ~wish
                        /\ visible' <=> wish \/ revealed'
    BY <1>1 DEF FollowQueue, OverlayFollows
  <2>2. (revealed => keys /\ ~wish) /\ (visible <=> wish \/ revealed)
    BY <2>1 DEF OverlayFollows
  <2>3. CASE keys' = TRUE /\ ~keys /\ revealed' = ~visible /\ visible' = TRUE
    BY <1>0, <2>2, <2>3
  <2>4. CASE UNCHANGED <<keys, revealed, visible>>
    BY <2>2, <2>4
  <2>5. CASE keys' = FALSE /\ revealed' = FALSE /\ visible' = (visible /\ ~revealed)
    BY <1>0, <2>2, <2>5
  <2> QED BY <1>1, <2>3, <2>4, <2>5 DEF FollowQueue
<1>2. ASSUME NEW show \in BOOLEAN, Choose(show)
      PROVE  OverlayFollows'
  BY <1>0, <1>2 DEF Choose, OverlayFollows
<1>3. CASE ForgetReveal
  <2>1. choices # 0
    BY <1>0, <1>3 DEF ForgetReveal, SideTypeOK, ChoiceAssumption
  <2> QED BY <1>3, <2>1 DEF ForgetReveal, OverlayFollows
<1>4. CASE UNCHANGED <<keys, revealed, visible, wish, choices>>
  BY <1>4 DEF OverlayFollows
<1> QED
  BY <1>1, <1>2, <1>3, <1>4
     DEF Next, Submit, TakeAnswer, WithdrawOne, TimerFires, TimerEnds, ChangedStep,
         ShowCard, Listen, AnswerCurrent, CurrentArrives, CardArrives, TextInView,
         CardArms, TakeReport, TimePasses, vars, sideVars

-----------------------------------------------------------------------------
(* The invariant and the theorems                                          *)

(* At the start nothing is shown, armed or listened for.                   *)
LEMMA SideInit == ChoiceAssumption /\ Init => SideTypeOK /\ QueueInv /\ SideInv
<1> SUFFICES ASSUME ChoiceAssumption, Init
             PROVE  SideTypeOK /\ QueueInv /\ SideInv
  OBVIOUS
<1>1. QueueTypeOK /\ QueueInv
  BY InitInv DEF Init
<1>2. SideTypeOK
  <2>1. /\ calls \in Nat /\ ~inChanged /\ choices \in 0 .. MaxChoices /\ forgets \in 0 .. choices
        /\ timerFor \in Id \cup {0} /\ timers \in [Id -> Nat]
        /\ page \in {"loading", "asking", "ready"} /\ current \in Id \cup {0, NoAnswer}
        /\ events \in Seq(Id \cup {0}) /\ card \in Id \cup {0}
        /\ inView \in {Unseen} \cup 0 .. ArmDelay /\ reports \subseteq Id /\ seen \subseteq Id
    BY DelayAssumption, EmptySeq DEF Init, ChoiceAssumption
  <2>2. /\ inChanged \in BOOLEAN /\ keys \in BOOLEAN /\ revealed \in BOOLEAN
        /\ visible \in BOOLEAN /\ wish \in BOOLEAN /\ heard \in BOOLEAN
        /\ reported \in BOOLEAN
    BY DEF Init
  <2> QED BY <1>1, <2>1, <2>2 DEF SideTypeOK
<1>3. \A id : ~IsPending(id) /\ ~IsShown(id)
  BY DEF Init, QueueInit, IsPending, IsShown
<1>4. entries = <<>> /\ DOMAIN entries = {} /\ fate = <<>> /\ DOMAIN fate = {}
      /\ events = <<>> /\ DOMAIN events = {}
  BY DEF Init, QueueInit
<1>5. KeysFollow /\ SeenFirst
  BY <1>4 DEF Init, KeysFollow, SeenFirst, AllowedWasSeen
<1>6. TimerFollows
  BY <1>3, <1>4 DEF Init, TimerFollows
<1>7. CardFollows
  BY <1>4 DEF Init, CardFollows
<1>8. ClocksAgree
  BY <1>3, <1>4, BoundAssumption DEF Init, ClocksAgree, Id, NoAnswer
<1>9. OverlayFollows
  BY DEF Init, OverlayFollows
<1> QED BY <1>1, <1>2, <1>5, <1>6, <1>7, <1>8, <1>9 DEF SideInv

(* Every step keeps the types, the queue's invariant and what follows the  *)
(* queue.                                                                  *)
LEMMA SideStep ==
  ASSUME ChoiceAssumption, SideTypeOK, QueueInv, SideInv, [Next]_vars
  PROVE  SideTypeOK' /\ QueueInv' /\ SideInv'
<1>1. SideTypeOK'
  BY SideTypeStep
<1>2. QueueInv'
  BY SideQueueStep, StepInv DEF SideTypeOK
<1> QED BY <1>1, <1>2, KeysStep, TimerStep, CardStep, SeenStep, ClocksStep, OverlayStep
        DEF SideInv

(* What the invariant says at rest.                                        *)
LEMMA InvInLine ==
  ASSUME SideTypeOK, SideInv
  PROVE  InLineWithQueue /\ CardInLine
<1>0. CardInLine
  BY DEF SideInv, CardFollows, LastWord, CardInLine
<1>1. SUFFICES ASSUME AtRest
               PROVE  /\ keys <=> entries # <<>>
                      /\ IF entries = <<>>
                         THEN ~revealed
                         ELSE timerFor = ShownId /\ timers[ShownId] = 1
  BY <1>0 DEF InLineWithQueue
<1>2. (keys <=> entries # <<>>) /\ (entries = <<>> => ~revealed)
  BY <1>1 DEF SideInv, KeysFollow
<1>3. ASSUME entries # <<>>
      PROVE  timerFor = ShownId /\ timers[ShownId] = 1
  <2>1. timerFor = ShownId
    BY <1>1, <1>3 DEF SideInv, TimerFollows
  <2>2. IsPending(timerFor)
    BY <1>1, <1>3, <2>1, ShownIdType DEF SideTypeOK
  <2> QED BY <1>1, <2>1, <2>2 DEF SideInv, TimerFollows
<1> QED BY <1>2, <1>3

(* Nothing is left of a card once it is gone.                              *)
LEMMA InvOverlay ==
  ASSUME SideTypeOK, SideInv, choices = 0
  PROVE  OverlayAsTheUserLeftIt
BY DEF SideTypeOK, SideInv, KeysFollow, OverlayFollows, OverlayAsTheUserLeftIt

(* What is armed or allowed was seen.                                      *)
LEMMA InvSeen ==
  ASSUME SideTypeOK, QueueInv, SideInv
  PROVE  AllowedWasSeen /\ ArmedCanBeAllowed
<1>1. AllowedWasSeen
  BY DEF SideInv, SeenFirst
<1>2. ASSUME NEW i \in DOMAIN entries, entries[i].armed
      PROVE  CanAllow(entries[i].id)
  <2>1. i = 1 /\ entries # <<>>
    BY <1>2, EmptySeq, LenProperties
       DEF SideTypeOK, QueueTypeOK, QueueInv, OnlyFrontArmed
  <2> QED BY <1>2, <2>1 DEF CanAllow, IsShown, SideInv, ClocksAgree
<1> QED BY <1>1, <1>2 DEF ArmedCanBeAllowed

(* What follows the queue: the keys that are listened for, the timer, the  *)
(* card, what was seen, the clocks and the overlay.                        *)
THEOREM SideInvariant ==
  ASSUME ChoiceAssumption
  PROVE  Spec => [](SideTypeOK /\ QueueInv /\ SideInv)
<1>1. Init => SideTypeOK /\ QueueInv /\ SideInv
  BY SideInit
<1>2. (SideTypeOK /\ QueueInv /\ SideInv) /\ [Next]_vars
        => (SideTypeOK /\ QueueInv /\ SideInv)'
  BY SideStep
<1> QED BY <1>1, <1>2, PTL DEF Spec

(* Types hold in every reachable state.                                    *)
THEOREM SideTypeCorrect ==
  ASSUME ChoiceAssumption
  PROVE  Spec => []SideTypeOK
BY SideInvariant, PTL

(* Once no call of `changed` is under way, the hotkeys are registered      *)
(* exactly while something is pending and one timer runs for the request   *)
(* on screen, however the calls and the changes of the queue interleaved.  *)
THEOREM SideFollowsQueue ==
  ASSUME ChoiceAssumption
  PROVE  Spec => []InLineWithQueue
BY InvInLine, SideInvariant, PTL

(* The card is that of the request on screen once nothing is on its way to *)
(* it: while the page loads, the answer to its question and the events     *)
(* may come in either order.                                               *)
THEOREM CardShowsTheFront ==
  ASSUME ChoiceAssumption
  PROVE  Spec => []CardInLine
BY InvInLine, SideInvariant, PTL

(* Nothing is allowed whose whole text was not in view for ARM_DELAY on    *)
(* its own card.                                                           *)
THEOREM AllowedOnlyWhatWasSeen ==
  ASSUME ChoiceAssumption
  PROVE  Spec => []AllowedWasSeen
BY InvSeen, SideInvariant, PTL

(* What the card shows as armed can be allowed: its clock never runs ahead *)
(* of the core's.                                                          *)
THEOREM ArmedMeansAllowable ==
  ASSUME ChoiceAssumption
  PROVE  Spec => []ArmedCanBeAllowed
BY InvSeen, SideInvariant, PTL

(* Until the menu is used, an overlay shown for a card is hidden again     *)
(* when nothing is pending, and one that was up stays up.                  *)
THEOREM OverlayGoesBack ==
  ASSUME ChoiceAssumption
  PROVE  Spec => [](choices = 0 => OverlayAsTheUserLeftIt)
<1>1. SideTypeOK /\ SideInv => (choices = 0 => OverlayAsTheUserLeftIt)
  BY InvOverlay
<1> QED BY <1>1, SideInvariant, PTL

(* Everything around the queue uses it as its specification allows, so     *)
(* that what is proved of the queue holds of it here.                      *)
THEOREM SideUsesTheQueue ==
  ASSUME ChoiceAssumption
  PROVE  Spec => QueueSpec
<1>1. Init => QueueInit
  BY DEF Init
<1>2. SideTypeOK /\ [Next]_vars => [QueueNext]_queueVars
  BY SideQueueStep
<1> QED BY <1>1, <1>2, SideTypeCorrect, PTL DEF Spec, QueueSpec
=============================================================================
