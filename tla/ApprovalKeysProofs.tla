------------------------- MODULE ApprovalKeysProofs -------------------------
(***************************************************************************)
(* Proofs about the approval hotkeys and the hold of the Allow chord, for  *)
(* every delay, every hold and every number of requests, presses and key   *)
(* events: whatever is pressed, let go or lost, the queue is used as it is *)
(* meant to be, and an Allow is for the request the chord was pressed for. *)
(***************************************************************************)
EXTENDS ApprovalKeys, ApprovalQueueProofs

(* A step of the hotkeys is a step of the queue, or leaves it alone.       *)
LEMMA KeysQueueStep ==
  ASSUME QueueTypeOK, KeysTypeOK, [Next]_vars
  PROVE  [QueueNext]_queueVars
<1>1. ASSUME NEW task \in answers, RunAnswer(task)
      PROVE  [QueueNext]_queueVars
  <2>1. task.id \in Id /\ task.decision \in {"allow", "deny"}
    BY <1>1 DEF KeysTypeOK
  <2> QED BY <1>1, <2>1 DEF RunAnswer, QueueNext
<1>2. CASE Others
  BY <1>2 DEF Others, QueueNext
<1>3. CASE TimePasses
  BY <1>3 DEF TimePasses, QueueNext
<1>4. CASE UNCHANGED queueVars
  BY <1>4
<1> QED BY <1>1, <1>2, <1>3, <1>4
        DEF Next, MoveMods, MoveMain, AllowDown, NotePress, SeeRelease, AllowUp, DenyDown,
            Look, Check, vars

(* The request on screen, if there is one, is a request.                   *)
LEMMA ShownIsARequest ==
  ASSUME QueueTypeOK
  PROVE  (ShownId # 0 => ShownId \in Id) /\ (CanAllow(ShownId) => ShownId \in Id)
<1>1. entries # <<>> => entries[1] \in Entry
  BY EmptySeq, ElementOfSeq, LenProperties DEF QueueTypeOK
<1> QED BY <1>1 DEF ShownId, CanAllow, IsShown, Entry

-----------------------------------------------------------------------------
(* Why a hold allows what the chord was pressed for: the request read at   *)
(* the press is kept with it through the hold and into the answer.         *)
KeysInv ==
  /\ pressedFor \in Seq(Id)
  /\ pressing # NoPress => pressing.id \in Id
  /\ held.press # 0 => held.id \in Id /\ pressedFor[held.press] = held.id
  /\ \A task \in answers : task.decision = "allow" => task.press # 0
  /\ AllowsWhatWasPressedFor

(* Every key, press and tick keeps them.                                   *)
LEMMA KeysInvStep ==
  ASSUME HoldAssumption, QueueInv, KeysTypeOK, KeysInv, [Next]_vars
  PROVE  KeysTypeOK' /\ KeysInv'
<1> USE DEF HoldAssumption
<1>1. QueueTypeOK'
  BY KeysQueueStep, StepTypeOK DEF KeysTypeOK, QueueInv
<1>2. CASE MoveMods
  BY <1>1, <1>2 DEF MoveMods, KeysTypeOK, KeysInv, AllowsWhatWasPressedFor
<1>3. CASE MoveMain
  BY <1>1, <1>3 DEF MoveMain, KeysTypeOK, KeysInv, AllowsWhatWasPressedFor
<1>4. CASE AllowDown
  BY <1>1, <1>4, ShownIsARequest
     DEF AllowDown, KeysTypeOK, KeysInv, AllowsWhatWasPressedFor
<1>5. CASE NotePress
  <2>1. pressing.id \in Id /\ pressing.age \in 0 .. Hold /\ presses + 1 \in 1 .. MaxPresses
    BY <1>5 DEF NotePress, KeysTypeOK, KeysInv
  <2>2. /\ presses' = presses + 1 /\ pressing' = NoPress /\ pollers' = pollers + 1
        /\ held' = [press |-> presses', id |-> pressing.id, age |-> pressing.age]
        /\ looks' = looks \cup {[press |-> presses', saw |-> "nothing"]}
        /\ pressedFor' = Append(pressedFor, pressing.id)
        /\ UNCHANGED <<mainDown, modsDown, upFor, messages, releases, answers>>
    BY <1>5 DEF NotePress
  <2>3. /\ pressedFor' \in Seq(Id) /\ Len(pressedFor') = presses'
        /\ pressedFor'[presses'] = pressing.id
        /\ \A press \in 1 .. presses : pressedFor'[press] = pressedFor[press]
    BY <2>1, <2>2 DEF KeysTypeOK, KeysInv
  <2>4. KeysTypeOK'
    BY <1>1, <2>1, <2>2, <2>3 DEF KeysTypeOK, NoPress
  <2>5. AllowsWhatWasPressedFor'
    <3> SUFFICES ASSUME NEW task \in answers, task.decision = "allow"
                 PROVE  pressedFor'[task.press] = task.id
      BY <2>2 DEF AllowsWhatWasPressedFor
    <3>1. task.press \in 1 .. presses
      BY DEF KeysTypeOK, KeysInv
    <3> QED BY <2>3, <3>1 DEF KeysInv, AllowsWhatWasPressedFor
  <2> QED BY <2>1, <2>2, <2>3, <2>4, <2>5 DEF KeysInv
<1>6. CASE SeeRelease
  BY <1>1, <1>6 DEF SeeRelease, KeysTypeOK, KeysInv, AllowsWhatWasPressedFor
<1>7. CASE AllowUp
  BY <1>1, <1>7 DEF AllowUp, NoHold, KeysTypeOK, KeysInv, AllowsWhatWasPressedFor
<1>8. CASE DenyDown
  BY <1>1, <1>8, ShownIsARequest
     DEF DenyDown, KeysTypeOK, KeysInv, AllowsWhatWasPressedFor
<1>9. ASSUME NEW task \in looks, Look(task)
      PROVE  KeysTypeOK' /\ KeysInv'
  <2>1. /\ UNCHANGED <<mainDown, modsDown, upFor, messages, pressing, pollers, releases,
                        presses, held, answers, pressedFor>>
        /\ \E saw \in {"down", "up"} :
             looks' = (looks \ {task}) \cup {[task EXCEPT !.saw = saw]}
    BY <1>9 DEF Look
  <2>2. \A saw \in {"down", "up"} :
          [task EXCEPT !.saw = saw]
            \in [press : 1 .. presses, saw : {"nothing", "down", "up", "asleep"}]
    BY <1>9 DEF KeysTypeOK
  <2>3. looks' \subseteq [press : 1 .. presses, saw : {"nothing", "down", "up", "asleep"}]
    BY <2>1, <2>2 DEF KeysTypeOK
  <2>4. KeysTypeOK'
    BY <1>1, <2>1, <2>3 DEF KeysTypeOK
  <2> QED BY <2>1, <2>4 DEF KeysInv, AllowsWhatWasPressedFor
<1>10. ASSUME NEW task \in looks, Check(task)
       PROVE  KeysTypeOK' /\ KeysInv'
  <2>1. /\ UNCHANGED <<mainDown, modsDown, upFor, messages, pressing, pollers, releases,
                        presses, pressedFor>>
        /\ held' \in {held, NoHold}
        /\ looks' = looks \ {task} \/ looks' = (looks \ {task}) \cup {[task EXCEPT !.saw = "asleep"]}
        /\ answers' = answers \/ (held.press = task.press /\ answers' = answers \cup {AllowTask(held)})
    BY <1>10 DEF Check
  <2>2. task.press \in 1 .. presses
    BY <1>10 DEF KeysTypeOK
  <2>3. [task EXCEPT !.saw = "asleep"] \in [press : 1 .. presses, saw : {"nothing", "down", "up", "asleep"}]
    BY <1>10 DEF KeysTypeOK
  <2>4. looks' \subseteq [press : 1 .. presses, saw : {"nothing", "down", "up", "asleep"}]
    BY <2>1, <2>3 DEF KeysTypeOK
  <2>5. held' \in [press : 0 .. presses, id : Id \cup {0}, age : 0 .. Hold]
    BY <2>1 DEF KeysTypeOK, NoHold
  <2>6. held.press = task.press =>
          /\ AllowTask(held) \in [id : Id, decision : {"allow", "deny"}, press : 0 .. presses]
          /\ pressedFor[AllowTask(held).press] = AllowTask(held).id /\ AllowTask(held).press # 0
    BY <2>2 DEF KeysTypeOK, KeysInv, AllowTask
  <2>7. KeysTypeOK'
    BY <1>1, <2>1, <2>4, <2>5, <2>6 DEF KeysTypeOK
  <2>8. held'.press # 0 => held'.id \in Id /\ pressedFor'[held'.press] = held'.id
    BY <2>1 DEF KeysInv, NoHold
  <2> QED BY <2>1, <2>6, <2>7, <2>8 DEF KeysInv, AllowsWhatWasPressedFor
<1>11. ASSUME NEW task \in answers, RunAnswer(task)
       PROVE  KeysTypeOK' /\ KeysInv'
  BY <1>1, <1>11 DEF RunAnswer, KeysTypeOK, KeysInv, AllowsWhatWasPressedFor
<1>12. CASE Others
  BY <1>1, <1>12 DEF Others, keyVars, KeysTypeOK, KeysInv, AllowsWhatWasPressedFor
<1>13. CASE TimePasses
  <2>1. \A age \in 0 .. Hold : HoldAge(age) \in 0 .. Hold
    BY DEF HoldAge
  <2>2. /\ held' = IF held = NoHold THEN held ELSE [held EXCEPT !.age = HoldAge(@)]
        /\ pressing' = IF pressing = NoPress
                       THEN pressing ELSE [pressing EXCEPT !.age = HoldAge(@)]
        /\ looks' = {[task EXCEPT !.saw = "nothing"] : task \in looks}
        /\ upFor' = IF ChordDown THEN 0 ELSE 1
        /\ UNCHANGED <<mainDown, modsDown, messages, pollers, releases, presses, answers,
                       pressedFor>>
    BY <1>13 DEF TimePasses
  <2>3. /\ held' \in [press : 0 .. presses, id : Id \cup {0}, age : 0 .. Hold]
        /\ held'.press = held.press /\ held'.id = held.id
    BY <2>1, <2>2 DEF KeysTypeOK
  <2>4. /\ pressing' \in [id : Id \cup {0}, age : 0 .. Hold]
        /\ pressing'.id = pressing.id /\ (pressing' # NoPress => pressing # NoPress)
    BY <2>1, <2>2 DEF KeysTypeOK
  <2>5. KeysTypeOK'
    BY <1>1, <2>2, <2>3, <2>4 DEF KeysTypeOK
  <2> QED BY <2>2, <2>3, <2>4, <2>5 DEF KeysInv, AllowsWhatWasPressedFor
<1>14. CASE UNCHANGED vars
  BY <1>1, <1>14 DEF vars, keyVars, KeysTypeOK, KeysInv, AllowsWhatWasPressedFor
<1> QED BY <1>2, <1>3, <1>4, <1>5, <1>6, <1>7, <1>8, <1>9, <1>10, <1>11, <1>12, <1>13, <1>14
        DEF Next

(* Why letting go never allows: the chord is all down only within the tick *)
(* it went down or stayed down in, and what a task saw of it is not older. *)
FreshLook ==
  /\ ChordDown => upFor = 0
  /\ (\E task \in looks : task.saw = "down") => upFor = 0

(* And the thread that decides has looked since the chord was let go.      *)
LEMMA FreshLookStep ==
  ASSUME KeysTypeOK, FreshLook, [Next]_vars
  PROVE  FreshLook'
<1> USE DEF FreshLook, ChordDown
<1>1. CASE MoveMods
  BY <1>1 DEF MoveMods, KeysTypeOK
<1>2. CASE MoveMain
  BY <1>2 DEF MoveMain, KeysTypeOK
<1>3. CASE AllowDown \/ SeeRelease \/ AllowUp \/ DenyDown
  BY <1>3 DEF AllowDown, SeeRelease, AllowUp, DenyDown
<1>4. CASE NotePress
  BY <1>4 DEF NotePress
<1>5. ASSUME NEW task \in looks, Look(task)
      PROVE  FreshLook'
  BY <1>5 DEF Look, KeysTypeOK
<1>6. ASSUME NEW task \in looks, Check(task)
      PROVE  FreshLook'
  BY <1>6 DEF Check, KeysTypeOK
<1>7. ASSUME NEW task \in answers, RunAnswer(task)
      PROVE  FreshLook'
  BY <1>7 DEF RunAnswer
<1>8. CASE Others
  BY <1>8 DEF Others, keyVars
<1>9. CASE TimePasses
  BY <1>9 DEF TimePasses, KeysTypeOK
<1>10. CASE UNCHANGED vars
  BY <1>10 DEF vars, keyVars
<1> QED BY <1>1, <1>2, <1>3, <1>4, <1>5, <1>6, <1>7, <1>8, <1>9, <1>10 DEF Next

-----------------------------------------------------------------------------
(* At the start no key is down and nothing is held.                        *)
LEMMA KeysInit ==
  ASSUME HoldAssumption, Init
  PROVE  KeysTypeOK /\ QueueInv /\ KeysInv /\ FreshLook
<1>1. QueueTypeOK /\ QueueInv
  BY InitInv DEF Init
<1>2. pressedFor \in Seq(Id) /\ Len(pressedFor) = 0
  BY EmptySeq DEF Init
<1>3. KeysTypeOK
  <2>1. pressing \in [id : Id \cup {0}, age : 0 .. Hold]
    BY DEF Init, NoPress, HoldAssumption
  <2>2. held \in [press : 0 .. 0, id : Id \cup {0}, age : 0 .. Hold]
    BY DEF Init, NoHold, HoldAssumption
  <2>3. /\ mainDown = FALSE /\ modsDown = FALSE /\ upFor = 1 /\ messages = 0 /\ pollers = 0
        /\ releases = 0 /\ presses = 0 /\ looks = {} /\ answers = {}
    BY DEF Init
  <2>4. presses \in 0 .. MaxPresses
    BY <2>3 DEF HoldAssumption
  <2>5. mainDown \in BOOLEAN /\ modsDown \in BOOLEAN
    BY <2>3, Zenon
  <2> QED BY <1>1, <1>2, <2>1, <2>2, <2>3, <2>4, <2>5 DEF KeysTypeOK
<1>4. KeysInv
  BY <1>2 DEF Init, NoPress, NoHold, KeysInv, AllowsWhatWasPressedFor
<1>5. FreshLook
  BY DEF Init, FreshLook, ChordDown
<1> QED BY <1>1, <1>3, <1>4, <1>5

(* No step of the listener, the queue or the clock breaks one of them.     *)
LEMMA KeysStep ==
  ASSUME HoldAssumption, KeysTypeOK, QueueInv, KeysInv, FreshLook, [Next]_vars
  PROVE  KeysTypeOK' /\ QueueInv' /\ KeysInv' /\ FreshLook'
<1>1. QueueInv'
  BY KeysQueueStep, StepInv DEF KeysTypeOK
<1> QED BY <1>1, KeysInvStep, FreshLookStep

(* All of it holds in every reachable state.                               *)
LEMMA KeysInvariant ==
  ASSUME HoldAssumption
  PROVE  Spec => [](KeysTypeOK /\ QueueInv /\ KeysInv /\ FreshLook)
BY KeysInit, KeysStep, PTL DEF Spec

(* A hold that finishes saw the chord all down in this very tick.          *)
LEMMA FinishedHoldSawTheChord ==
  ASSUME KeysTypeOK, FreshLook, [Next]_vars,
         NEW task \in answers' \ answers, task.decision = "allow"
  PROVE  upFor = 0
<1>1. answers' # answers /\ ~DenyDown
  BY DEF DenyDown
<1>2. PICK look \in looks : Check(look)
  BY <1>1
     DEF Next, MoveMods, MoveMain, AllowDown, NotePress, SeeRelease, AllowUp, Look,
         RunAnswer, Others, TimePasses, vars, keyVars
<1>3. look.saw = "down"
  BY <1>2 DEF Check
<1> QED BY <1>2, <1>3 DEF FreshLook

(* Types hold for every hold, every delay and every bound.                 *)
THEOREM KeysTypeCorrect == ASSUME HoldAssumption PROVE Spec => []KeysTypeOK
BY KeysInvariant, PTL

(* The request an Allow of the hold answers is the one that was on screen  *)
(* when the chord was pressed, though the card may have moved on since and *)
(* presses, releases and answers cross.                                    *)
THEOREM HoldAllowsItsOwnRequest ==
  ASSUME HoldAssumption PROVE Spec => []AllowsWhatWasPressedFor
BY KeysInvariant, PTL DEF KeysInv

(* No hold finishes once any key of the chord has been up for a tick, also *)
(* when the release event came late or never.                              *)
THEOREM LettingGoNeverAllows ==
  ASSUME HoldAssumption PROVE Spec => LetGoNeverAllows
<1> DEFINE Allows == \E task \in answers' \ answers : task.decision = "allow"
<1>1. KeysTypeOK /\ FreshLook /\ [Next]_vars => (Allows => upFor = 0)
  BY FinishedHoldSawTheChord
<1> QED BY <1>1, KeysInvariant, PTL DEF Spec, LetGoNeverAllows

(* The hotkeys use the queue as it is meant to be used: what is proved of  *)
(* the queue holds of it under any presses.                                *)
THEOREM KeysUseTheQueue == ASSUME HoldAssumption PROVE Spec => QueueSpec
<1>1. Init => QueueInit
  BY DEF Init
<1>2. KeysTypeOK /\ [Next]_vars => [QueueNext]_queueVars
  BY KeysQueueStep DEF KeysTypeOK
<1> QED BY <1>1, <1>2, KeysInvariant, PTL DEF Spec, QueueSpec
=============================================================================
