------------------------ MODULE ApprovalAskersProofs ------------------------
(***************************************************************************)
(* Proofs about the askers of the approval broker, for every set of        *)
(* askers, every delay and every number of requests: what they do to the   *)
(* queue is what the queue allows, so that its invariant holds here too;   *)
(* no card stays up for an asker that has gone; an asker hears what became *)
(* of its own request; and a take that is called off is denied, its card   *)
(* on the way down.                                                        *)
(***************************************************************************)
EXTENDS ApprovalAskers, ApprovalQueueProofs

(* A step of the askers is a step of the queue, or leaves it alone.        *)
LEMMA QueueStep == QueueTypeOK /\ [Next]_vars => [QueueNext]_queueVars
<1> SUFFICES ASSUME QueueTypeOK, [Next]_vars PROVE [QueueNext]_queueVars
  OBVIOUS
<1>1. ASSUME NEW id, Withdraw(id)
      PROVE  QueueNext
  <2>1. PICK i \in DOMAIN entries : entries[i].id = id
    BY <1>1 DEF Withdraw
  <2>2. entries[i] \in Entry
    BY ElementOfSeq, LenProperties DEF QueueTypeOK
  <2>3. id \in Id
    BY <2>1, <2>2 DEF Entry
  <2> QED BY <1>1, <2>3 DEF QueueNext
<1>2. ASSUME NEW id, WithdrawNow(id)
      PROVE  [QueueNext]_queueVars
  BY <1>1, <1>2 DEF WithdrawNow
<1>3. ASSUME NEW a \in Asker, AskerStep(a)
      PROVE  [QueueNext]_queueVars
  <2>1. CASE Submit(a)
    BY <2>1 DEF Submit, QueueNext
  <2>2. CASE CallOff(a) \/ GiveUp(a)
    BY <1>2, <2>2 DEF CallOff, GiveUp
  <2>3. CASE UNCHANGED queueVars
    BY <2>3
  <2> QED BY <1>3, <2>1, <2>2, <2>3
          DEF AskerStep, CheckCancelled, Await, WaitOn, ReceiveAsync, ReceiveBlocking, Finish
<1>4. CASE UserStep
  <2>1. ASSUME NEW id \in Id, NEW how \in {"allow", "deny"}, UserAnswers(id, how)
        PROVE  QueueNext
    BY <2>1 DEF UserAnswers, QueueNext
  <2>2. ASSUME NEW id \in Id, CardArms(id)
        PROVE  QueueNext
    BY <2>2 DEF CardArms, QueueNext
  <2>3. ASSUME NEW a \in Asker, Abort(a) \/ CancelTake(a)
        PROVE  UNCHANGED queueVars
    BY <2>3 DEF Abort, CancelTake
  <2> QED BY <1>4, <2>1, <2>2, <2>3 DEF UserStep
<1>5. CASE TaskStep
  BY <1>2, <1>5 DEF TaskStep, RunWithdraw, SendReply
<1>6. CASE Lapse
  BY <1>6 DEF Lapse, QueueNext
<1>7. CASE TimePasses
  BY <1>7 DEF TimePasses, QueueNext
<1>8. CASE UNCHANGED vars
  BY <1>8 DEF vars
<1> QED BY <1>3, <1>4, <1>5, <1>6, <1>7, <1>8 DEF Next

(* The askers use the queue as it is meant to be used: whatever they do in *)
(* whatever order, the queue under them behaves as it does alone, and the  *)
(* theorems about it hold of the broker.                                   *)
THEOREM AskersUseTheQueue == Spec => QueueSpec
<1>1. Init => QueueInit /\ QueueTypeOK /\ QueueInv
  BY InitInv DEF Init
<1>2. QueueTypeOK /\ QueueInv /\ [Next]_vars
        => [QueueNext]_queueVars /\ QueueTypeOK' /\ QueueInv'
  BY QueueStep, StepTypeOK, StepInv DEF QueueInv
<1> QED BY <1>1, <1>2, PTL DEF Spec, QueueSpec

-----------------------------------------------------------------------------
(* A request that leaves the queue is settled, and no other.               *)
LEMMA TakeSettlesOne ==
  ASSUME QueueTypeOK, QueueInv,
         NEW i \in DOMAIN entries, NEW how \in Fate \ {"pending"}, Take(i, how)
  PROVE  /\ entries[i].id \in DOMAIN fate /\ entries[i].id \in Id
         /\ DOMAIN fate' = DOMAIN fate
         /\ fate'[entries[i].id] # "pending"
         /\ \A id \in DOMAIN fate : fate'[id] = "pending" => fate[id] = "pending"
<1>1. IsPending(entries[i].id)
  BY DEF IsPending
<1>2. entries[i].id \in DOMAIN fate
  BY <1>1, FrontIsOldest
<1>3. entries[i] \in Entry
  BY ElementOfSeq, LenProperties DEF QueueTypeOK
<1>4. entries[i].id \in Id
  BY <1>3 DEF Entry
<1>5. fate' = [fate EXCEPT ![entries[i].id] = how]
  BY DEF Take
<1> QED BY <1>2, <1>4, <1>5

(* A withdrawal settles its request if it is pending, and hands its        *)
(* receiver nothing else than "closed".                                    *)
LEMMA WithdrawNowSettles ==
  ASSUME AskersTypeOK, QueueInv, NEW id \in DOMAIN fate, WithdrawNow(id)
  PROVE  /\ DOMAIN fate' = DOMAIN fate
         /\ fate'[id] # "pending"
         /\ \A other \in DOMAIN fate : fate'[other] = "pending" => fate[other] = "pending"
         /\ channel' \in [Asker -> {"empty", "allow", "deny", "undecided", "closed"}]
         /\ \A a \in Asker : channel'[a] # channel[a] => Receiving(a) /\ asking[a] = id
<1>1. CASE IsPending(id)
  <2>1. PICK i \in DOMAIN entries : entries[i].id = id /\ Take(i, "withdrawn")
    BY <1>1 DEF WithdrawNow, Withdraw
  <2>2. "withdrawn" \in Fate \ {"pending"}
    BY DEF Fate
  <2>3. /\ DOMAIN fate' = DOMAIN fate /\ fate'[id] # "pending"
        /\ \A other \in DOMAIN fate : fate'[other] = "pending" => fate[other] = "pending"
    BY <2>1, <2>2, TakeSettlesOne DEF AskersTypeOK
  <2>4. Deliver(id, "closed")
    BY <1>1 DEF WithdrawNow
  <2> QED BY <2>3, <2>4 DEF Deliver, AskersTypeOK
<1>2. CASE ~IsPending(id)
  <2>1. fate' = fate /\ channel' = channel
    BY <1>2 DEF WithdrawNow, queueVars
  <2>2. fate[id] # "pending"
    BY <1>2 DEF QueueInv, OldestFirst
  <2> QED BY <2>1, <2>2 DEF AskersTypeOK
<1> QED BY <1>1, <1>2

(* Why no card is orphaned: an asker that receives asks a request of its   *)
(* own, one that has a value in its channel has had its request settled,   *)
(* and a reply is only on its way once its request is. Only a recipe's     *)
(* thread gives up or finishes.                                            *)
OnlyRecipesFinish ==
  \A a \in Asker : pc[a] \in {"calledOff", "giveUp", "finishing"} => a \in Recipe

AskersInv ==
  /\ OnlyRecipesFinish
  /\ \A a \in Asker :
       Receiving(a) =>
         /\ asking[a] \in DOMAIN fate /\ owner[asking[a]] = a
         /\ channel[a] # "empty" => fate[asking[a]] # "pending"
  /\ \A task \in tasks :
       task.id \in DOMAIN fate /\ (task.do = "reply" => fate[task.id] # "pending")
  /\ \A a \in Recipe : waitingOn[a] # None => waitingOn[a] \in DOMAIN fate
  /\ \A id \in DOMAIN fate :
       fate[id] = "pending" =>
         \/ Receiving(owner[id]) /\ asking[owner[id]] = id
         \/ WithdrawTask(id) \in tasks

(* Every request has an asker.                                             *)
LEMMA OwnersAsk ==
  ASSUME AskersTypeOK, NEW id \in DOMAIN fate
  PROVE  owner[id] \in Asker
<1>1. DOMAIN owner = DOMAIN fate
  BY LenProperties DEF AskersTypeOK, QueueTypeOK
<1> QED BY <1>1, ElementOfSeq, LenProperties DEF AskersTypeOK

(* What a step that asks for nothing must not do.                          *)
LEMMA AskersKept ==
  ASSUME AskersTypeOK, AskersInv, OnlyRecipesFinish',
         owner' = owner, DOMAIN fate' = DOMAIN fate,
         \A id \in DOMAIN fate : fate'[id] = "pending" => fate[id] = "pending",
         \A a \in Asker :
           Receiving(a)' =>
             /\ Receiving(a) /\ asking'[a] = asking[a]
             /\ channel'[a] # channel[a] => fate'[asking[a]] # "pending",
         \A id \in DOMAIN fate :
           fate'[id] = "pending" =>
             /\ Receiving(owner[id]) /\ asking[owner[id]] = id
                  => Receiving(owner[id])' \/ WithdrawTask(id) \in tasks'
             /\ WithdrawTask(id) \in tasks => WithdrawTask(id) \in tasks',
         \A task \in tasks' :
           \/ task \in tasks
           \/ task.id \in DOMAIN fate /\ (task.do = "reply" => fate'[task.id] # "pending"),
         \A a \in Recipe : waitingOn'[a] # None => waitingOn'[a] \in DOMAIN fate
  PROVE  AskersInv'
<1>1. \A a \in Asker :
        Receiving(a)' =>
          /\ asking'[a] \in DOMAIN fate' /\ owner'[asking'[a]] = a
          /\ channel'[a] # "empty" => fate'[asking'[a]] # "pending"
  BY DEF AskersInv
<1>2. \A task \in tasks' :
        task.id \in DOMAIN fate' /\ (task.do = "reply" => fate'[task.id] # "pending")
  BY DEF AskersInv
<1>3. ASSUME NEW id \in DOMAIN fate', fate'[id] = "pending"
      PROVE  \/ Receiving(owner[id])' /\ asking'[owner'[id]] = id
             \/ WithdrawTask(id) \in tasks'
  <2>1. owner[id] \in Asker
    BY OwnersAsk
  <2>2. \/ Receiving(owner[id]) /\ asking[owner[id]] = id
        \/ WithdrawTask(id) \in tasks
    BY <1>3 DEF AskersInv
  <2>3. CASE WithdrawTask(id) \in tasks
    BY <1>3, <2>3
  <2>4. CASE Receiving(owner[id]) /\ asking[owner[id]] = id
    <3> DEFINE a == owner[id]
    <3>1. a \in Asker /\ owner' = owner /\ id \in DOMAIN fate /\ asking[a] = id
      BY <1>3, <2>1, <2>4
    <3>2. pc'[a] \in {"submitting", "calledOff", "waiting", "giveUp"}
            \/ WithdrawTask(id) \in tasks'
      BY <1>3, <2>4, <3>1 DEF Receiving
    <3>3. CASE pc'[a] \in {"submitting", "calledOff", "waiting", "giveUp"}
      <4>1. asking'[a] = asking[a]
        BY <3>1, <3>3 DEF Receiving
      <4>2. owner'[id] = a
        BY <3>1
      <4> HIDE DEF a
      <4>3. Receiving(owner[id])' /\ asking'[owner'[id]] = id
        BY <3>1, <3>3, <4>1, <4>2 DEF Receiving
      <4> QED BY <4>3
    <3> QED BY <3>1, <3>2, <3>3
  <2> QED BY <2>2, <2>3, <2>4
<1> QED BY <1>1, <1>2, <1>3 DEF AskersInv, WithdrawTask

-----------------------------------------------------------------------------
(* Every step keeps the types.                                             *)
LEMMA AskersStepTypeOK ==
  ASSUME AskersTypeOK, QueueInv, AskersInv, [Next]_vars
  PROVE  AskersTypeOK'
<1> USE DEF AskersTypeOK, None
<1>1. QueueTypeOK'
  BY QueueStep, StepTypeOK DEF QueueInv
<1>2. ASSUME nextId' = nextId, owner' = owner
      PROVE  owner' \in Seq(Asker) /\ Len(owner') = Len(fate')
  <2>1. Len(fate') = nextId' - 1 /\ Len(fate) = nextId - 1
    BY <1>1 DEF QueueTypeOK
  <2> QED BY <1>2, <2>1
<1>3. ASSUME NEW id, NEW what \in {"allow", "deny", "undecided", "closed"}, Deliver(id, what)
      PROVE  channel' \in [Asker -> {"empty", "allow", "deny", "undecided", "closed"}]
  BY <1>3 DEF Deliver
<1>4. ASSUME NEW id, WithdrawNow(id)
      PROVE  /\ nextId' = nextId
             /\ channel' \in [Asker -> {"empty", "allow", "deny", "undecided", "closed"}]
  BY <1>3, <1>4 DEF WithdrawNow, Withdraw, Take, queueVars
<1>11. DOMAIN fate \subseteq Id
  BY LenProperties, BoundAssumption DEF QueueTypeOK, Id
<1>5. ASSUME NEW a \in Asker, AskerStep(a)
      PROVE  AskersTypeOK'
  <2>1. CASE CheckCancelled(a)
    <3>1. /\ nextId' = nextId
          /\ UNCHANGED <<asking, owner, channel, decision, waited, cancelled, waitingOn, tasks>>
      BY <2>1 DEF CheckCancelled, queueVars
    <3>2. CASE cancelled[a]
      <4>1. /\ result' = [result EXCEPT ![a] = [id |-> None, decision |-> "deny"]]
            /\ pc' = pc
        BY <2>1, <3>2, Zenon DEF CheckCancelled
      <4> QED BY <1>1, <1>2, <1>5, <3>1, <4>1
    <3>3. CASE ~cancelled[a]
      <4>1. pc' = [pc EXCEPT ![a] = "checked"] /\ result' = result
        BY <2>1, <3>3, Zenon DEF CheckCancelled
      <4> QED BY <1>1, <1>2, <1>5, <3>1, <4>1
    <3> QED BY <3>2, <3>3
  <2>2. CASE Submit(a)
    <3>1. nextId \in Id /\ Len(fate') = Len(fate) + 1
      BY <2>2, BoundAssumption DEF Submit, Push, Id, QueueTypeOK
    <3>2. owner' \in Seq(Asker) /\ Len(owner') = Len(owner) + 1
      BY <1>5, <2>2 DEF Submit
    <3> QED BY <1>1, <1>5, <2>2, <3>1, <3>2 DEF Submit
  <2>3. CASE Await(a)
    BY <1>1, <1>2, <1>5, <2>3 DEF Await, queueVars
  <2>4. CASE WaitOn(a)
    <3>1. /\ nextId' = nextId /\ a \in Recipe
          /\ UNCHANGED <<asking, owner, channel, decision, result, cancelled, tasks>>
      BY <2>4 DEF WaitOn, queueVars
    <3>2. CASE cancelled[a]
      <4>1. /\ pc' = [pc EXCEPT ![a] = "calledOff"]
            /\ waitingOn' = waitingOn /\ waited' = waited
        BY <2>4, <3>2, Zenon DEF WaitOn
      <4> QED BY <1>1, <1>2, <1>5, <3>1, <4>1
    <3>3. CASE ~cancelled[a]
      <4>1. /\ pc' = [pc EXCEPT ![a] = "waiting"]
            /\ waitingOn' = [waitingOn EXCEPT ![a] = asking[a]]
            /\ waited' = [waited EXCEPT ![a] = 0]
        BY <2>4, <3>3, Zenon DEF WaitOn
      <4> QED BY <1>1, <1>2, <1>5, <3>1, <4>1, BackstopAssumption
    <3> QED BY <3>2, <3>3
  <2>5. CASE CallOff(a)
    BY <1>1, <1>2, <1>4, <1>5, <2>5 DEF CallOff
  <2>6. CASE ReceiveAsync(a)
    <3>1. result' \in [Asker -> [id : Id \cup {None},
                                 decision : {"allow", "deny", "undecided"}]]
      BY <1>5, <2>6 DEF ReceiveAsync
    <3>2. pc' \in [Asker -> {"idle", "checked", "submitting", "calledOff", "waiting",
                             "giveUp", "finishing", "gone"}]
      BY <1>5, <2>6 DEF ReceiveAsync
    <3> QED BY <1>1, <1>2, <2>6, <3>1, <3>2 DEF ReceiveAsync, queueVars
  <2>7. CASE ReceiveBlocking(a)
    BY <1>1, <1>2, <1>5, <2>7 DEF ReceiveBlocking, queueVars
  <2>8. CASE GiveUp(a)
    BY <1>1, <1>2, <1>4, <1>5, <2>8 DEF GiveUp
  <2>9. CASE Finish(a)
    <3>1. a \in Recipe
      BY <1>5, <2>9 DEF Finish, AskersInv, OnlyRecipesFinish
    <3> QED BY <1>1, <1>2, <1>5, <2>9, <3>1 DEF Finish, queueVars
  <2> QED BY <1>5, <2>1, <2>2, <2>3, <2>4, <2>5, <2>6, <2>7, <2>8, <2>9 DEF AskerStep
<1>6. CASE UserStep
  <2>1. ASSUME NEW id \in Id, NEW how \in {"allow", "deny"}, UserAnswers(id, how)
        PROVE  AskersTypeOK'
    BY <1>1, <1>2, <2>1 DEF UserAnswers, Answer, Take, ReplyTask
  <2>2. ASSUME NEW id \in Id, CardArms(id)
        PROVE  AskersTypeOK'
    BY <1>1, <1>2, <2>2 DEF CardArms, Arm, askerVars
  <2>3. ASSUME NEW a \in Asker, Abort(a)
        PROVE  AskersTypeOK'
    <3>1. asking[a] \in Id
      BY <2>3, <1>11 DEF Abort, Receiving, AskersInv
    <3> QED BY <1>1, <1>2, <2>3, <3>1 DEF Abort, WithdrawTask, queueVars
  <2>4. ASSUME NEW a \in Asker, CancelTake(a)
        PROVE  AskersTypeOK'
    BY <1>1, <1>2, <2>4 DEF CancelTake, WithdrawTask, queueVars
  <2> QED BY <1>6, <2>1, <2>2, <2>3, <2>4 DEF UserStep
<1>7. CASE TaskStep
  <2>1. ASSUME NEW task \in tasks, RunWithdraw(task)
        PROVE  AskersTypeOK'
    BY <1>1, <1>2, <1>4, <2>1 DEF RunWithdraw
  <2>2. ASSUME NEW task \in tasks, SendReply(task)
        PROVE  AskersTypeOK'
    <3>1. task.say \in {"allow", "deny", "undecided", "closed"}
      OBVIOUS
    <3> QED BY <1>1, <1>2, <1>3, <2>2, <3>1 DEF SendReply, queueVars
  <2> QED BY <1>7, <2>1, <2>2 DEF TaskStep
<1>8. CASE Lapse
  <2>1. ShownId \in Id
    <3>1. entries # <<>> /\ entries[1] \in Entry
      BY <1>8, EmptySeq, ElementOfSeq, LenProperties DEF Lapse, Expire, IsDue, QueueTypeOK
    <3> QED BY <3>1 DEF ShownId, Entry
  <2> QED BY <1>1, <1>2, <1>8, <2>1 DEF Lapse, Expire, Take, LapseSays, ReplyTask
<1>9. CASE TimePasses
  <2>1. nextId' = nextId
    BY <1>9 DEF TimePasses, Tick, queueVars
  <2>2. waited' \in [Recipe -> 0 .. Backstop]
    BY <1>9, BackstopAssumption, DelayAssumption DEF TimePasses
  <2> QED BY <1>1, <1>2, <1>9, <2>1, <2>2 DEF TimePasses
<1>10. CASE UNCHANGED vars
  BY <1>1, <1>10 DEF vars, queueVars, askerVars
<1> QED BY <1>5, <1>6, <1>7, <1>8, <1>9, <1>10 DEF Next

-----------------------------------------------------------------------------
(* An asker stops receiving once its request is settled.                   *)
LEMMA AskerLeaves ==
  ASSUME AskersTypeOK, AskersInv, NEW a \in Asker,
         UNCHANGED <<fate, asking, owner, channel, tasks>>,
         \/ pc[a] = "waiting" /\ channel[a] # "empty" /\ pc' = [pc EXCEPT ![a] = "gone"]
         \/ pc[a] = "waiting" /\ channel[a] # "empty" /\ pc' = [pc EXCEPT ![a] = "idle"]
         \/ pc[a] = "finishing" /\ pc' = [pc EXCEPT ![a] = "idle"]
         \/ /\ pc[a] = "waiting" /\ channel[a] # "empty" /\ a \in Recipe
            /\ pc' = [pc EXCEPT ![a] = "finishing"],
         \A b \in Recipe : waitingOn'[b] = None \/ waitingOn'[b] = waitingOn[b]
  PROVE  AskersInv'
<1> USE DEF AskersTypeOK, AskersInv
<1>1. \A b \in Asker : b # a => pc'[b] = pc[b]
  OBVIOUS
<1>2. pc'[a] \in {"gone", "idle", "finishing"}
  OBVIOUS
<1>3. OnlyRecipesFinish'
  BY <1>1 DEF OnlyRecipesFinish
<1>4. \A b \in Asker : Receiving(b)' => Receiving(b)
  BY <1>1, <1>2 DEF Receiving
<1>5. Receiving(a) => fate[asking[a]] # "pending"
  BY DEF Receiving
<1>6. ASSUME NEW id \in DOMAIN fate, fate'[id] = "pending",
             Receiving(owner[id]), asking[owner[id]] = id
      PROVE  Receiving(owner[id])'
  <2>1. owner[id] \in Asker /\ owner'[id] = owner[id]
    BY OwnersAsk
  <2>2. owner[id] # a
    BY <1>5, <1>6
  <2> QED BY <1>1, <1>6, <2>1, <2>2 DEF Receiving
<1>7. \A b \in Recipe : waitingOn'[b] # None => waitingOn'[b] \in DOMAIN fate
  OBVIOUS
<1> QED BY <1>3, <1>4, <1>6, <1>7, AskersKept

(* A new request is one its asker receives on.                             *)
LEMMA SubmitKeepsAskersInv ==
  ASSUME AskersTypeOK, AskersInv, NEW a \in Asker, Submit(a)
  PROVE  AskersInv'
<1> USE DEF AskersTypeOK, AskersInv, None
<1>1. /\ DOMAIN fate = 1 .. nextId - 1 /\ DOMAIN fate' = 1 .. nextId
      /\ nextId \in Nat \ {0}
      /\ fate'[nextId] = "pending"
      /\ \A id \in DOMAIN fate : fate'[id] = fate[id]
  BY LenProperties, BoundAssumption DEF Submit, Push, QueueTypeOK
<1>2. /\ owner'[nextId] = a
      /\ \A id \in DOMAIN fate : owner'[id] = owner[id]
  <2>1. owner \in Seq(Asker) /\ Len(owner) = nextId - 1 /\ owner' = Append(owner, a)
    BY DEF Submit, QueueTypeOK
  <2> QED BY <1>1, <2>1
<1>3. /\ pc' = [pc EXCEPT ![a] = "submitting"]
      /\ asking' = [asking EXCEPT ![a] = nextId]
      /\ channel' = [channel EXCEPT ![a] = "empty"]
      /\ waitingOn' = waitingOn /\ tasks' = tasks
  BY DEF Submit
<1>4. pc[a] \in {"checked", "idle"}
  BY DEF Submit
<1>5. \A b \in Asker :
        Receiving(b)' =>
          /\ asking'[b] \in DOMAIN fate' /\ owner'[asking'[b]] = b
          /\ channel'[b] # "empty" => fate'[asking'[b]] # "pending"
  <2>1. ASSUME NEW b \in Asker, Receiving(b)', b # a
        PROVE  /\ asking'[b] \in DOMAIN fate' /\ owner'[asking'[b]] = b
               /\ channel'[b] # "empty" => fate'[asking'[b]] # "pending"
    <3>1. Receiving(b) /\ asking'[b] = asking[b] /\ channel'[b] = channel[b]
      BY <1>3, <2>1 DEF Receiving
    <3>2. asking[b] \in DOMAIN fate
      BY <3>1
    <3> QED BY <1>1, <1>2, <3>1, <3>2
  <2>2. asking'[a] = nextId /\ channel'[a] = "empty"
    BY <1>3
  <2> QED BY <1>1, <1>2, <2>1, <2>2
<1>6. OnlyRecipesFinish'
  BY <1>3 DEF OnlyRecipesFinish
<1>7. ASSUME NEW id \in DOMAIN fate', fate'[id] = "pending"
      PROVE  \/ Receiving(owner[id])' /\ asking'[owner'[id]] = id
             \/ WithdrawTask(id) \in tasks'
  <2>1. CASE id = nextId
    BY <1>2, <1>3, <2>1 DEF Receiving
  <2>2. CASE id # nextId
    <3>1. id \in DOMAIN fate /\ fate[id] = "pending" /\ owner'[id] = owner[id]
      BY <1>1, <1>2, <1>7, <2>2
    <3>2. CASE WithdrawTask(id) \in tasks
      BY <1>3, <3>2 DEF WithdrawTask
    <3>3. CASE Receiving(owner[id]) /\ asking[owner[id]] = id
      <4>1. owner[id] # a
        BY <1>4, <3>3 DEF Receiving
      <4>2. pc'[owner[id]] = pc[owner[id]] /\ asking'[owner[id]] = asking[owner[id]]
        BY <1>3, <4>1
      <4> QED BY <3>1, <3>3, <4>2 DEF Receiving
    <3> QED BY <3>1, <3>2, <3>3
  <2> QED BY <2>1, <2>2
<1>8. \A task \in tasks' :
        task.id \in DOMAIN fate' /\ (task.do = "reply" => fate'[task.id] # "pending")
  BY <1>1, <1>3
<1>9. \A b \in Recipe : waitingOn'[b] # None => waitingOn'[b] \in DOMAIN fate'
  BY <1>1, <1>3
<1> QED BY <1>5, <1>6, <1>7, <1>8, <1>9 DEF WithdrawTask

(* An asker's own step keeps it.                                           *)
LEMMA AskerStepKeepsAskersInv ==
  ASSUME AskersTypeOK, QueueInv, AskersInv, NEW a \in Asker, AskerStep(a)
  PROVE  AskersInv'
<1> USE DEF AskersTypeOK, AskersInv, None
<1>1. CASE Submit(a)
  BY <1>1, SubmitKeepsAskersInv
<1>2. CASE CheckCancelled(a)
  <2>1. pc' = pc \/ pc' = [pc EXCEPT ![a] = "checked"]
    BY <1>2, Zenon DEF CheckCancelled
  <2>2. /\ pc[a] = "idle"
        /\ UNCHANGED <<fate, asking, owner, channel, waitingOn, tasks>>
    BY <1>2 DEF CheckCancelled, queueVars
  <2>3. \A b \in Asker : Receiving(b)' <=> Receiving(b)
    BY <2>1, <2>2 DEF Receiving
  <2> QED BY <2>1, <2>2, <2>3, AskersKept DEF OnlyRecipesFinish
<1>3. CASE Await(a)
  <2>1. /\ pc' = [pc EXCEPT ![a] = "waiting"] /\ pc[a] = "submitting"
        /\ UNCHANGED <<fate, asking, owner, channel, waitingOn, tasks>>
    BY <1>3 DEF Await, queueVars
  <2>2. \A b \in Asker : Receiving(b)' <=> Receiving(b)
    BY <2>1 DEF Receiving
  <2> QED BY <2>1, <2>2, AskersKept DEF OnlyRecipesFinish
<1>4. CASE WaitOn(a)
  <2>1. /\ pc[a] = "submitting" /\ a \in Recipe
        /\ UNCHANGED <<fate, asking, owner, channel, tasks>>
    BY <1>4 DEF WaitOn, queueVars
  <2>2. \/ pc' = [pc EXCEPT ![a] = "calledOff"] /\ waitingOn' = waitingOn
        \/ /\ pc' = [pc EXCEPT ![a] = "waiting"]
           /\ waitingOn' = [waitingOn EXCEPT ![a] = asking[a]]
    BY <1>4, Zenon DEF WaitOn
  <2>3. asking[a] \in DOMAIN fate
    BY <2>1 DEF Receiving
  <2>4. \A b \in Recipe : waitingOn'[b] # None => waitingOn'[b] \in DOMAIN fate
    BY <2>2, <2>3
  <2>5. \A b \in Asker : Receiving(b)' <=> Receiving(b)
    BY <2>1, <2>2 DEF Receiving
  <2>6. OnlyRecipesFinish'
    BY <2>1, <2>2 DEF OnlyRecipesFinish
  <2> QED BY <2>1, <2>4, <2>5, <2>6, AskersKept
<1>5. CASE CallOff(a) \/ GiveUp(a)
  <2>1. /\ pc[a] \in {"calledOff", "giveUp"}
        /\ \/ pc' = [pc EXCEPT ![a] = "idle"]
           \/ pc' = [pc EXCEPT ![a] = "finishing"]
        /\ WithdrawNow(asking[a])
        /\ UNCHANGED <<asking, owner, waitingOn, tasks>>
    BY <1>5 DEF CallOff, GiveUp
  <2>2. asking[a] \in DOMAIN fate /\ a \in Recipe
    BY <2>1 DEF Receiving, OnlyRecipesFinish
  <2>3. /\ DOMAIN fate' = DOMAIN fate /\ fate'[asking[a]] # "pending"
        /\ \A other \in DOMAIN fate : fate'[other] = "pending" => fate[other] = "pending"
        /\ \A b \in Asker : channel'[b] # channel[b] => asking[b] = asking[a]
    BY <2>1, <2>2, WithdrawNowSettles
  <2>4. OnlyRecipesFinish'
    BY <2>1, <2>2 DEF OnlyRecipesFinish
  <2>5. \A b \in Asker : Receiving(b)' => Receiving(b)
    BY <2>1 DEF Receiving
  <2>6. \A b \in Asker : Receiving(b) /\ b # a => Receiving(b)'
    BY <2>1 DEF Receiving
  <2>7. ASSUME NEW id \in DOMAIN fate, fate'[id] = "pending",
               Receiving(owner[id]), asking[owner[id]] = id
        PROVE  Receiving(owner[id])'
    <3>1. owner[id] # a /\ owner'[id] = owner[id]
      BY <2>1, <2>3, <2>7
    <3>2. owner[id] \in Asker
      BY OwnersAsk
    <3> QED BY <2>1, <2>7, <3>1, <3>2 DEF Receiving
  <2> QED BY <2>1, <2>3, <2>4, <2>5, <2>7, AskersKept
<1>6. CASE ReceiveAsync(a) \/ Finish(a)
  <2>1. /\ \/ pc[a] = "waiting" /\ channel[a] # "empty" /\ pc' = [pc EXCEPT ![a] = "gone"]
           \/ pc[a] = "waiting" /\ channel[a] # "empty" /\ pc' = [pc EXCEPT ![a] = "idle"]
           \/ pc[a] = "finishing" /\ pc' = [pc EXCEPT ![a] = "idle"]
        /\ UNCHANGED <<fate, asking, owner, channel, tasks>>
    BY <1>6 DEF ReceiveAsync, Finish, queueVars
  <2>2. \A b \in Recipe : waitingOn'[b] = None \/ waitingOn'[b] = waitingOn[b]
    BY <1>6 DEF ReceiveAsync, Finish
  <2> QED BY <2>1, <2>2, AskerLeaves
<1>7. CASE ReceiveBlocking(a)
  <2>1. /\ \/ channel[a] # "empty" /\ pc' = [pc EXCEPT ![a] = "finishing"]
           \/ pc' = [pc EXCEPT ![a] = "giveUp"]
        /\ pc[a] = "waiting" /\ a \in Recipe
        /\ UNCHANGED <<fate, asking, owner, channel, waitingOn, tasks>>
    BY <1>7 DEF ReceiveBlocking, queueVars
  <2>2. CASE channel[a] # "empty" /\ pc' = [pc EXCEPT ![a] = "finishing"]
    BY <2>1, <2>2, AskerLeaves
  <2>3. CASE pc' = [pc EXCEPT ![a] = "giveUp"]
    <3>1. \A b \in Asker : Receiving(b)' <=> Receiving(b)
      BY <2>1, <2>3 DEF Receiving
    <3>2. OnlyRecipesFinish'
      BY <2>1, <2>3 DEF OnlyRecipesFinish
    <3> QED BY <2>1, <3>1, <3>2, AskersKept
  <2> QED BY <2>1, <2>2, <2>3
<1> QED BY <1>1, <1>2, <1>3, <1>4, <1>5, <1>6, <1>7 DEF AskerStep

(* So does a step of the user, of a spawned task, of the timer or of time: *)
(* each settles one request and spawns its reply, or settles none.         *)
LEMMA OthersKeepAskersInv ==
  ASSUME AskersTypeOK, QueueInv, AskersInv,
         UserStep \/ TaskStep \/ Lapse \/ TimePasses
  PROVE  AskersInv'
<1> USE DEF AskersTypeOK, AskersInv, None
<1>1. ASSUME NEW id \in DOMAIN fate, NEW say,
             DOMAIN fate' = DOMAIN fate, fate'[id] # "pending",
             \A other \in DOMAIN fate : fate'[other] = "pending" => fate[other] = "pending",
             tasks' = tasks \cup {ReplyTask(id, say)},
             UNCHANGED <<pc, asking, owner, channel, waitingOn>>
      PROVE  AskersInv'
  <2>1. \A a \in Asker : Receiving(a)' <=> Receiving(a)
    BY <1>1 DEF Receiving
  <2>2. ReplyTask(id, say).id = id
    BY DEF ReplyTask
  <2>3. \A task \in tasks' : task \in tasks \/ (task.id = id /\ fate'[task.id] # "pending")
    BY <1>1, <2>2
  <2>4. \A other \in DOMAIN fate : owner'[other] = owner[other]
    BY <1>1
  <2>5. OnlyRecipesFinish'
    BY <1>1 DEF OnlyRecipesFinish
  <2>6. \A other \in DOMAIN fate :
          Receiving(owner[other]) => Receiving(owner[other])'
    BY <1>1 DEF Receiving
  <2> QED BY <1>1, <2>1, <2>3, <2>5, <2>6, AskersKept
<1>2. ASSUME NEW id \in Id, NEW how \in {"allow", "deny"}, UserAnswers(id, how)
      PROVE  AskersInv'
  <2>1. PICK i \in DOMAIN entries : entries[i].id = id /\ Take(i, how)
    BY <1>2 DEF UserAnswers, Answer
  <2>2. how \in Fate \ {"pending"}
    BY DEF Fate
  <2>3. /\ id \in DOMAIN fate /\ DOMAIN fate' = DOMAIN fate /\ fate'[id] # "pending"
        /\ \A other \in DOMAIN fate : fate'[other] = "pending" => fate[other] = "pending"
    BY <2>1, <2>2, TakeSettlesOne
  <2>4. /\ tasks' = tasks \cup {ReplyTask(id, how)}
        /\ UNCHANGED <<pc, asking, owner, channel, waitingOn>>
    BY <1>2 DEF UserAnswers
  <2> QED BY <1>1, <2>3, <2>4
<1>3. CASE Lapse
  <2>1. entries # <<>> /\ 1 \in DOMAIN entries
    BY <1>3, EmptySeq, LenProperties DEF Lapse, Expire, IsDue, QueueTypeOK
  <2>2. Take(1, "lapsed") /\ "lapsed" \in Fate \ {"pending"} /\ ShownId = entries[1].id
    BY <1>3, <2>1 DEF Lapse, Expire, Fate, ShownId
  <2>3. /\ ShownId \in DOMAIN fate /\ DOMAIN fate' = DOMAIN fate
        /\ fate'[ShownId] # "pending"
        /\ \A other \in DOMAIN fate : fate'[other] = "pending" => fate[other] = "pending"
    BY <2>1, <2>2, TakeSettlesOne
  <2>4. /\ tasks' = tasks \cup {ReplyTask(ShownId, LapseSays(owner[ShownId]))}
        /\ UNCHANGED <<pc, asking, owner, channel, waitingOn>>
    BY <1>3 DEF Lapse
  <2> QED BY <1>1, <2>3, <2>4
<1>4. ASSUME UNCHANGED <<fate, pc, asking, owner>>,
             \A a \in Asker : Receiving(a) /\ channel'[a] # channel[a]
                                => fate[asking[a]] # "pending",
             \A task \in tasks : task.do = "withdraw" => task \in tasks',
             \A task \in tasks' :
               task \in tasks \/ (task.do = "withdraw" /\ task.id \in DOMAIN fate),
             \A a \in Recipe : waitingOn'[a] = None \/ waitingOn'[a] = waitingOn[a]
      PROVE  AskersInv'
  <2>1. \A a \in Asker : Receiving(a)' <=> Receiving(a)
    BY <1>4 DEF Receiving
  <2>2. OnlyRecipesFinish'
    BY <1>4 DEF OnlyRecipesFinish
  <2>3. \A id \in DOMAIN fate :
          /\ Receiving(owner[id]) => Receiving(owner[id])'
          /\ WithdrawTask(id) \in tasks => WithdrawTask(id) \in tasks'
    BY <1>4 DEF Receiving, WithdrawTask
  <2>4. \A task \in tasks' :
          \/ task \in tasks
          \/ task.id \in DOMAIN fate /\ (task.do = "reply" => fate'[task.id] # "pending")
    BY <1>4
  <2>5. \A a \in Recipe : waitingOn'[a] # None => waitingOn'[a] \in DOMAIN fate
    BY <1>4
  <2> QED BY <1>4, <2>1, <2>2, <2>3, <2>4, <2>5, AskersKept
<1>5. ASSUME NEW id \in Id, CardArms(id)
      PROVE  AskersInv'
  BY <1>4, <1>5 DEF CardArms, Arm, askerVars
<1>6. ASSUME NEW a \in Asker, CancelTake(a)
      PROVE  AskersInv'
  <2>1. /\ UNCHANGED <<fate, pc, asking, owner, channel>>
        /\ waitingOn' = [waitingOn EXCEPT ![a] = None] /\ a \in Recipe
    BY <1>6 DEF CancelTake, queueVars
  <2>2. \/ tasks' = tasks
        \/ waitingOn[a] # None /\ tasks' = tasks \cup {WithdrawTask(waitingOn[a])}
    BY <1>6 DEF CancelTake
  <2>3. waitingOn[a] # None => waitingOn[a] \in DOMAIN fate
    BY <2>1
  <2>4. \A task \in tasks' : task \in tasks \/ (task.do = "withdraw" /\ task.id \in DOMAIN fate)
    BY <2>2, <2>3 DEF WithdrawTask
  <2> QED BY <1>4, <2>1, <2>2, <2>4
<1>7. ASSUME NEW a \in Asker, Abort(a)
      PROVE  AskersInv'
  <2>1. /\ pc[a] = "waiting" /\ pc' = [pc EXCEPT ![a] = "gone"]
        /\ tasks' = tasks \cup {WithdrawTask(asking[a])}
        /\ UNCHANGED <<fate, asking, owner, channel, waitingOn>>
    BY <1>7 DEF Abort, queueVars
  <2>2. asking[a] \in DOMAIN fate
    BY <2>1 DEF Receiving
  <2>3. \A b \in Asker : Receiving(b)' => Receiving(b)
    BY <2>1 DEF Receiving
  <2>4. OnlyRecipesFinish'
    BY <2>1 DEF OnlyRecipesFinish
  <2>5. ASSUME NEW id \in DOMAIN fate,
               Receiving(owner[id]), asking[owner[id]] = id
        PROVE  Receiving(owner[id])' \/ WithdrawTask(id) \in tasks'
    <3>1. owner[id] \in Asker /\ owner'[id] = owner[id]
      BY <2>1, OwnersAsk
    <3>2. CASE owner[id] = a
      BY <2>1, <2>5, <3>2
    <3>3. CASE owner[id] # a
      BY <2>1, <2>5, <3>1, <3>3 DEF Receiving
    <3> QED BY <3>2, <3>3
  <2>6. \A task \in tasks' : task \in tasks \/ (task.do = "withdraw" /\ task.id \in DOMAIN fate)
    BY <2>1, <2>2 DEF WithdrawTask
  <2> QED BY <2>1, <2>3, <2>4, <2>5, <2>6, AskersKept
<1>8. ASSUME NEW task \in tasks, RunWithdraw(task)
      PROVE  AskersInv'
  <2>1. /\ WithdrawNow(task.id) /\ task.id \in DOMAIN fate
        /\ tasks' = tasks \ {task}
        /\ UNCHANGED <<pc, asking, owner, waitingOn>>
    BY <1>8 DEF RunWithdraw
  <2>2. /\ DOMAIN fate' = DOMAIN fate /\ fate'[task.id] # "pending"
        /\ \A other \in DOMAIN fate : fate'[other] = "pending" => fate[other] = "pending"
        /\ \A b \in Asker : channel'[b] # channel[b] => asking[b] = task.id
    BY <2>1, WithdrawNowSettles
  <2>3. \A b \in Asker : Receiving(b)' <=> Receiving(b)
    BY <2>1 DEF Receiving
  <2>4. OnlyRecipesFinish'
    BY <2>1 DEF OnlyRecipesFinish
  <2>5. \A id \in DOMAIN fate : Receiving(owner[id]) => Receiving(owner[id])'
    BY <2>1 DEF Receiving
  <2>6. ASSUME NEW id \in DOMAIN fate, fate'[id] = "pending", WithdrawTask(id) \in tasks
        PROVE  WithdrawTask(id) \in tasks'
    <3>1. WithdrawTask(id).id = id
      BY DEF WithdrawTask
    <3> QED BY <2>1, <2>2, <2>6, <3>1
  <2> QED BY <2>1, <2>2, <2>3, <2>4, <2>5, <2>6, AskersKept
<1>9. ASSUME NEW task \in tasks, SendReply(task)
      PROVE  AskersInv'
  <2>1. /\ UNCHANGED <<fate, pc, asking, owner, waitingOn>>
        /\ tasks' = tasks \ {task} /\ task.do = "reply" /\ Deliver(task.id, task.say)
    BY <1>9 DEF SendReply, queueVars
  <2>2. fate[task.id] # "pending"
    BY <2>1
  <2>3. \A b \in Asker : channel'[b] # channel[b] => asking[b] = task.id
    BY <2>1 DEF Deliver
  <2> QED BY <1>4, <2>1, <2>2, <2>3
<1>10. CASE TimePasses
  <2>1. UNCHANGED <<fate, pc, asking, owner, channel, waitingOn, tasks>>
    BY <1>10 DEF TimePasses, Tick, queueVars
  <2> QED BY <1>4, <2>1
<1> QED BY <1>2, <1>3, <1>5, <1>6, <1>7, <1>8, <1>9, <1>10 DEF UserStep, TaskStep

-----------------------------------------------------------------------------
(* The types and the reason no card is orphaned hold whatever the askers,  *)
(* the user and the timer do, in whatever order.                           *)
LEMMA AskersInvariant == Spec => [](AskersTypeOK /\ QueueInv /\ AskersInv)
<1>1. Init => AskersTypeOK /\ QueueInv /\ AskersInv
  <2>1. Init => QueueTypeOK /\ QueueInv
    BY InitInv DEF Init
  <2>2. Init => AskersTypeOK
    BY <2>1, DelayAssumption, BackstopAssumption
       DEF Init, QueueInit, AskersTypeOK, None
  <2>3. Init => AskersInv
    BY DEF Init, QueueInit, AskersInv, OnlyRecipesFinish, Receiving, None
  <2> QED BY <2>1, <2>2, <2>3
<1>2. AskersTypeOK /\ QueueInv /\ AskersInv /\ [Next]_vars
        => AskersTypeOK' /\ QueueInv' /\ AskersInv'
  <2> SUFFICES ASSUME AskersTypeOK, QueueInv, AskersInv, [Next]_vars
               PROVE  AskersTypeOK' /\ QueueInv' /\ AskersInv'
    OBVIOUS
  <2>1. AskersTypeOK'
    BY AskersStepTypeOK
  <2>2. QueueInv'
    BY QueueStep, StepInv DEF AskersTypeOK
  <2>3. CASE UNCHANGED vars
    <3>1. UNCHANGED <<fate, pc, asking, owner, channel, waitingOn, tasks>>
      BY <2>3 DEF vars, queueVars, askerVars
    <3>2. OnlyRecipesFinish'
      BY <3>1 DEF AskersInv, OnlyRecipesFinish
    <3>3. \A a \in Asker : Receiving(a)' <=> Receiving(a)
      BY <3>1 DEF Receiving
    <3>4. \A id \in DOMAIN fate : Receiving(owner[id]) => Receiving(owner[id])'
      BY <3>1 DEF Receiving
    <3>5. \A a \in Recipe : waitingOn'[a] # None => waitingOn'[a] \in DOMAIN fate
      BY <3>1 DEF AskersInv
    <3> QED BY <2>1, <2>2, <3>1, <3>2, <3>3, <3>4, <3>5, AskersKept
  <2>4. CASE Next
    <3>1. CASE \E a \in Asker : AskerStep(a)
      BY <2>1, <2>2, <3>1, AskerStepKeepsAskersInv
    <3>2. CASE UserStep \/ TaskStep \/ Lapse \/ TimePasses
      BY <2>1, <2>2, <3>2, OthersKeepAskersInv
    <3> QED BY <2>4, <3>1, <3>2 DEF Next
  <2> QED BY <2>1, <2>2, <2>3, <2>4
<1> QED BY <1>1, <1>2, PTL DEF Spec

(* Types hold for every set of askers and every delay.                     *)
THEOREM AskersTypeCorrect == Spec => []AskersTypeOK
BY AskersInvariant, PTL

(* No card without an asker: whoever aborts, cancels, answers or lets a    *)
(* request lapse, and however these race, each pending request is one its  *)
(* asker still receives on, or its withdrawal is on its way.               *)
THEOREM NoCardIsOrphaned == Spec => []NoOrphanedCard
<1>1. AskersTypeOK /\ QueueInv /\ AskersInv => NoOrphanedCard
  <2> SUFFICES ASSUME AskersTypeOK, QueueInv, AskersInv,
                      NEW id \in DOMAIN owner, IsPending(id)
               PROVE  \/ Receiving(owner[id]) /\ asking[owner[id]] = id
                      \/ WithdrawTask(id) \in tasks
    BY DEF NoOrphanedCard
  <2>1. id \in DOMAIN fate
    BY LenProperties DEF AskersTypeOK, QueueTypeOK
  <2>2. fate[id] = "pending"
    BY <2>1 DEF QueueInv, OldestFirst
  <2> QED BY <2>1, <2>2 DEF AskersInv
<1> QED BY <1>1, AskersInvariant, PTL

-----------------------------------------------------------------------------
(* Why a called-off take's card comes down: until its wait is called off,  *)
(* the Cancel has the request the thread waits for, and hands it back then.*)
CalledOffInv ==
  \A a \in Recipe :
    pc[a] = "waiting" =>
      /\ ~cancelled[a] => waitingOn[a] = asking[a]
      /\ cancelled[a] /\ fate[asking[a]] = "pending"
           => WithdrawTask(asking[a]) \in tasks

(* What may be said of a request, by what became of it.                    *)
IsTrue(id, say) ==
  /\ say = "allow" => fate[id] = "allow"
  /\ owner[id] \in Agent =>
       /\ say = "deny" => fate[id] = "deny"
       /\ say = "undecided" => fate[id] = "lapsed"

(* Why each asker hears what became of its own request: what is on its way *)
(* to a channel, in one, or taken out of one is true of the request, and   *)
(* nobody withdraws what an agent still waits for.                         *)
HeardInv ==
  /\ \A task \in tasks : task.do = "reply" => task.say # "closed" /\ IsTrue(task.id, task.say)
  /\ \A task \in tasks :
       task.do = "withdraw" =>
         \A a \in Agent : ~(Receiving(a) /\ asking[a] = task.id)
  /\ \A a \in Asker : Receiving(a) => IsTrue(asking[a], channel[a])
  /\ \A a \in Agent : Receiving(a) => channel[a] # "closed"
  /\ \A a \in Recipe :
       /\ waitingOn[a] # None => owner[waitingOn[a]] = a
       /\ pc[a] = "giveUp" => decision[a] = "deny"
       /\ pc[a] = "finishing" =>
            /\ asking[a] \in DOMAIN fate /\ owner[asking[a]] = a
            /\ decision[a] = "allow" => fate[asking[a]] = "allow"
  /\ \A a \in Asker : result[a].id # None => result[a].id \in DOMAIN fate
  /\ HeardWhatWasSaid

-----------------------------------------------------------------------------
(* Requests keep their owners, and settled ones what became of them.       *)
LEMMA RequestsStay ==
  ASSUME AskersTypeOK, QueueInv, [Next]_vars, NEW id \in DOMAIN fate
  PROVE  /\ id \in DOMAIN fate' /\ owner'[id] = owner[id]
         /\ fate[id] # "pending" => fate'[id] = fate[id]
<1>1. id \in DOMAIN fate' /\ (fate[id] # "pending" => fate'[id] = fate[id])
  BY QueueStep, FatesStay DEF AskersTypeOK
<1>2. CASE owner' = owner
  BY <1>1, <1>2
<1>3. CASE \E a \in Asker : Submit(a)
  <2>1. PICK a \in Asker : owner' = Append(owner, a)
    BY <1>3 DEF Submit
  <2>2. id \in 1 .. Len(owner)
    BY LenProperties DEF AskersTypeOK, QueueTypeOK
  <2> QED BY <1>1, <2>1, <2>2 DEF AskersTypeOK
<1> QED BY <1>2, <1>3
        DEF Next, AskerStep, CheckCancelled, Await, WaitOn, CallOff, ReceiveAsync,
            ReceiveBlocking, GiveUp, Finish, UserStep, UserAnswers, CardArms, Abort,
            CancelTake, TaskStep, RunWithdraw, SendReply, Lapse, TimePasses, vars, askerVars

(* What is true of a request stays true.                                   *)
LEMMA TrueStays ==
  ASSUME NEW id, NEW say, IsTrue(id, say), owner'[id] = owner[id],
         fate[id] # "pending" => fate'[id] = fate[id]
  PROVE  IsTrue(id, say)'
BY DEF IsTrue

(* What a step must not do to HeardInv.                                    *)
LEMMA HeardKept ==
  ASSUME AskersTypeOK, AskersInv, HeardInv,
         \A id \in DOMAIN fate :
           /\ id \in DOMAIN fate' /\ owner'[id] = owner[id]
           /\ fate[id] # "pending" => fate'[id] = fate[id],
         \A a \in Asker :
           Receiving(a)' =>
             \/ Receiving(a) /\ asking'[a] = asking[a]
             \/ asking'[a] \notin DOMAIN fate /\ channel'[a] = "empty",
         \A a \in Asker :
           \/ channel'[a] \in {"empty", channel[a]}
           \/ IsTrue(asking[a], channel[a])' /\ (a \in Agent => channel'[a] # "closed"),
         \A task \in tasks' :
           \/ task \in tasks
           \/ task.do = "reply" /\ task.say # "closed" /\ IsTrue(task.id, task.say)'
           \/ /\ task.do = "withdraw" /\ task.id \in DOMAIN fate
              /\ \A a \in Agent : ~(Receiving(a)' /\ asking[a] = task.id),
         \A a \in Recipe :
           \/ waitingOn'[a] \in {None, waitingOn[a]}
           \/ waitingOn'[a] \in DOMAIN fate /\ owner[waitingOn'[a]] = a,
         \A a \in Recipe :
           pc'[a] = "giveUp" =>
             decision'[a] = "deny" \/ (pc[a] = "giveUp" /\ decision'[a] = decision[a]),
         \A a \in Recipe :
           pc'[a] = "finishing" =>
             /\ asking'[a] = asking[a]
             /\ asking[a] \in DOMAIN fate /\ owner[asking[a]] = a
             /\ decision'[a] = "allow" => fate[asking[a]] = "allow",
         \A a \in Asker :
           \/ result'[a] = result[a] \/ result'[a].id = None
           \/ /\ result'[a].id \in DOMAIN fate /\ owner[result'[a].id] = a
              /\ IsTrue(result'[a].id, result'[a].decision)
  PROVE  HeardInv'
<1>1. ASSUME NEW task \in tasks', task.do = "reply"
      PROVE  task.say # "closed" /\ IsTrue(task.id, task.say)'
  <2>1. CASE task \in tasks
    <3>1. task.say # "closed" /\ IsTrue(task.id, task.say) /\ task.id \in DOMAIN fate
      BY <1>1, <2>1 DEF HeardInv, AskersInv
    <3> QED BY <3>1, TrueStays
  <2> QED BY <1>1, <2>1
<1>2. ASSUME NEW task \in tasks', task.do = "withdraw", NEW a \in Agent,
             Receiving(a)', asking'[a] = task.id
      PROVE  FALSE
  <2>1. task.id \in DOMAIN fate
    BY <1>2 DEF AskersInv
  <2>2. Receiving(a) /\ asking[a] = task.id
    BY <1>2, <2>1 DEF Asker
  <2> QED BY <1>2, <2>2 DEF HeardInv
<1>3. ASSUME NEW a \in Asker, Receiving(a)'
      PROVE  IsTrue(asking[a], channel[a])' /\ (a \in Agent => channel'[a] # "closed")
  <2>1. CASE channel'[a] = "empty"
    BY <2>1 DEF IsTrue
  <2>2. CASE Receiving(a) /\ asking'[a] = asking[a] /\ channel'[a] = channel[a]
    <3>1. IsTrue(asking[a], channel[a]) /\ asking[a] \in DOMAIN fate
      BY <2>2 DEF HeardInv, AskersInv
    <3> QED BY <2>2, <3>1 DEF IsTrue, HeardInv
  <2> QED BY <1>3, <2>1, <2>2
<1>4. ASSUME NEW a \in Recipe, waitingOn'[a] # None
      PROVE  owner'[waitingOn'[a]] = a
  BY <1>4 DEF HeardInv, AskersInv
<1>5. ASSUME NEW a \in Recipe, pc'[a] = "finishing"
      PROVE  /\ asking'[a] \in DOMAIN fate' /\ owner'[asking'[a]] = a
             /\ decision'[a] = "allow" => fate'[asking'[a]] = "allow"
  BY <1>5
<1>6. ASSUME NEW a \in Asker, result'[a].id # None
      PROVE  /\ result'[a].id \in DOMAIN fate' /\ owner'[result'[a].id] = a
             /\ result'[a].decision = "allow" => fate'[result'[a].id] = "allow"
             /\ a \in Agent =>
                  /\ result'[a].decision = "deny" => fate'[result'[a].id] = "deny"
                  /\ result'[a].decision = "undecided" => fate'[result'[a].id] = "lapsed"
  <2>1. /\ result'[a].id \in DOMAIN fate /\ owner[result'[a].id] = a
        /\ IsTrue(result'[a].id, result'[a].decision)
    BY <1>6 DEF HeardInv, HeardWhatWasSaid, IsTrue
  <2> QED BY <2>1 DEF IsTrue
<1>7. HeardWhatWasSaid'
  BY <1>6 DEF HeardWhatWasSaid
<1>8. (\A task \in tasks :
         task.do = "withdraw" => \A a \in Agent : ~(Receiving(a) /\ asking[a] = task.id))'
  BY <1>2
<1>9. (\A a \in Agent : Receiving(a) => channel[a] # "closed")'
  BY <1>3 DEF Asker
<1>10. (\A a \in Asker : result[a].id # None => result[a].id \in DOMAIN fate)'
  BY <1>6
<1>11. (\A a \in Recipe : pc[a] = "giveUp" => decision[a] = "deny")'
  BY DEF HeardInv
<1> QED BY <1>1, <1>3, <1>4, <1>5, <1>7, <1>8, <1>9, <1>10, <1>11 DEF HeardInv

(* A withdrawal of a request no agent waits for is no news to an agent.    *)
LEMMA WithdrawNowIsNoNews ==
  ASSUME AskersTypeOK, NEW id \in DOMAIN fate, WithdrawNow(id),
         \A a \in Agent : ~(Receiving(a) /\ asking[a] = id),
         owner' = owner, asking' = asking,
         \A a \in Asker : Receiving(a) => owner[asking[a]] = a
  PROVE  \A a \in Asker :
           \/ channel'[a] \in {"empty", channel[a]}
           \/ IsTrue(asking[a], channel[a])' /\ (a \in Agent => channel'[a] # "closed")
<1> SUFFICES ASSUME NEW a \in Asker, channel'[a] # channel[a]
             PROVE  IsTrue(asking[a], channel[a])' /\ (a \in Agent => channel'[a] # "closed")
  OBVIOUS
<1>1. Deliver(id, "closed")
  BY DEF WithdrawNow
<1>2. channel'[a] = "closed" /\ Receiving(a) /\ asking[a] = id
  BY <1>1 DEF Deliver, AskersTypeOK
<1>3. a \notin Agent /\ owner[id] = a
  BY <1>2
<1> QED BY <1>2, <1>3 DEF IsTrue

(* Whatever an asker does, it heard what was said of its own request.      *)
LEMMA AskerStepKeepsHeard ==
  ASSUME AskersTypeOK, QueueInv, AskersInv, HeardInv, NEW a \in Asker, AskerStep(a)
  PROVE  HeardInv'
<1>1. \A id \in DOMAIN fate :
        /\ id \in DOMAIN fate' /\ owner'[id] = owner[id]
        /\ fate[id] # "pending" => fate'[id] = fate[id]
  BY RequestsStay DEF Next
<1>2. CASE CheckCancelled(a)
  <2>1. UNCHANGED <<asking, owner, channel, waitingOn, tasks>>
    BY <1>2 DEF CheckCancelled
  <2>2. \/ result' = [result EXCEPT ![a] = [id |-> None, decision |-> "deny"]] /\ pc' = pc
        \/ pc' = [pc EXCEPT ![a] = "checked"] /\ result' = result
    BY <1>2, Zenon DEF CheckCancelled
  <2>3. \A b \in Asker : Receiving(b)' => Receiving(b)
    BY <2>2 DEF Receiving, AskersTypeOK
  <2>4. \A b \in Asker : result'[b] = result[b] \/ result'[b].id = None
    BY <2>2 DEF AskersTypeOK
  <2>5. \A b \in Recipe : /\ pc'[b] = "finishing" => pc[b] = "finishing" /\ decision' = decision
                          /\ pc'[b] = "giveUp" => pc[b] = "giveUp" /\ decision' = decision
    BY <1>2, <2>2 DEF CheckCancelled, AskersTypeOK, Asker
  <2>6. \A b \in Recipe :
          pc'[b] = "finishing" =>
            /\ asking'[b] = asking[b]
            /\ asking[b] \in DOMAIN fate /\ owner[asking[b]] = b
            /\ decision'[b] = "allow" => fate[asking[b]] = "allow"
    BY <2>1, <2>5 DEF HeardInv
  <2> QED BY <1>1, <2>1, <2>3, <2>4, <2>5, <2>6, HeardKept
<1>3. CASE Submit(a)
  <2>1. /\ asking' = [asking EXCEPT ![a] = nextId] /\ channel' = [channel EXCEPT ![a] = "empty"]
        /\ pc' = [pc EXCEPT ![a] = "submitting"]
        /\ UNCHANGED <<decision, result, waitingOn, tasks>>
    BY <1>3 DEF Submit
  <2>2. nextId \notin DOMAIN fate
    BY LenProperties DEF AskersTypeOK, QueueTypeOK
  <2>3. \A b \in Asker :
          Receiving(b)' =>
            \/ Receiving(b) /\ asking'[b] = asking[b]
            \/ asking'[b] \notin DOMAIN fate /\ channel'[b] = "empty"
    BY <2>1, <2>2 DEF Receiving, AskersTypeOK
  <2>4. \A b \in Asker : channel'[b] \in {"empty", channel[b]}
    BY <2>1 DEF AskersTypeOK
  <2>5. \A b \in Recipe :
          /\ pc'[b] = "finishing" => pc[b] = "finishing" /\ asking'[b] = asking[b]
          /\ pc'[b] = "giveUp" => pc[b] = "giveUp"
    BY <2>1 DEF AskersTypeOK, Asker
  <2>6. \A b \in Recipe :
          pc'[b] = "finishing" =>
            /\ asking'[b] = asking[b]
            /\ asking[b] \in DOMAIN fate /\ owner[asking[b]] = b
            /\ decision'[b] = "allow" => fate[asking[b]] = "allow"
    BY <2>1, <2>5 DEF HeardInv
  <2> QED BY <1>1, <2>1, <2>3, <2>4, <2>5, <2>6, HeardKept
<1>4. CASE Await(a) \/ WaitOn(a)
  <2>1. /\ UNCHANGED <<asking, owner, channel, decision, result, tasks>>
        /\ pc[a] = "submitting"
        /\ \/ waitingOn' = waitingOn
           \/ waitingOn' = [waitingOn EXCEPT ![a] = asking[a]]
    BY <1>4, Zenon DEF Await, WaitOn
  <2>2. pc' = [pc EXCEPT ![a] = "waiting"] \/ pc' = [pc EXCEPT ![a] = "calledOff"]
    BY <1>4, Zenon DEF Await, WaitOn
  <2>3. \A b \in Asker : Receiving(b)' => Receiving(b)
    BY <2>1, <2>2 DEF Receiving, AskersTypeOK
  <2>4. \A b \in Recipe : /\ pc'[b] = "finishing" => pc[b] = "finishing"
                          /\ pc'[b] = "giveUp" => pc[b] = "giveUp"
    BY <2>2 DEF AskersTypeOK, Asker
  <2>5. \A b \in Recipe :
          pc'[b] = "finishing" =>
            /\ asking'[b] = asking[b]
            /\ asking[b] \in DOMAIN fate /\ owner[asking[b]] = b
            /\ decision'[b] = "allow" => fate[asking[b]] = "allow"
    BY <2>1, <2>4 DEF HeardInv
  <2>6. Receiving(a) /\ asking[a] \in DOMAIN fate /\ owner[asking[a]] = a
    BY <2>1 DEF Receiving, AskersInv
  <2>7. \A b \in Recipe :
          \/ waitingOn'[b] \in {None, waitingOn[b]}
          \/ waitingOn'[b] \in DOMAIN fate /\ owner[waitingOn'[b]] = b
    BY <2>1, <2>6 DEF AskersTypeOK
  <2> QED BY <1>1, <2>1, <2>3, <2>4, <2>5, <2>7, HeardKept
<1>5. CASE CallOff(a)
  <2>1. /\ pc[a] = "calledOff" /\ WithdrawNow(asking[a])
        /\ pc' = [pc EXCEPT ![a] = "idle"]
        /\ result' = [result EXCEPT ![a] = [id |-> asking[a], decision |-> "deny"]]
        /\ UNCHANGED <<asking, owner, decision, waitingOn, tasks>>
    BY <1>5 DEF CallOff
  <2>2. a \in Recipe /\ asking[a] \in DOMAIN fate /\ owner[asking[a]] = a
    BY <2>1 DEF AskersInv, OnlyRecipesFinish, Receiving
  <2>3. \A b \in Agent : ~(Receiving(b) /\ asking[b] = asking[a])
    BY <2>2, AskerAssumption DEF AskersInv, Asker
  <2>4. \A b \in Asker :
          \/ channel'[b] \in {"empty", channel[b]}
          \/ IsTrue(asking[b], channel[b])' /\ (b \in Agent => channel'[b] # "closed")
    BY <2>1, <2>2, <2>3, WithdrawNowIsNoNews DEF AskersInv
  <2>5. \A b \in Asker : Receiving(b)' => Receiving(b)
    BY <2>1 DEF Receiving, AskersTypeOK
  <2>6. \A b \in Recipe : /\ pc'[b] = "finishing" => pc[b] = "finishing"
                          /\ pc'[b] = "giveUp" => pc[b] = "giveUp"
    BY <2>1 DEF AskersTypeOK, Asker
  <2>7. \A b \in Recipe :
          pc'[b] = "finishing" =>
            /\ asking'[b] = asking[b]
            /\ asking[b] \in DOMAIN fate /\ owner[asking[b]] = b
            /\ decision'[b] = "allow" => fate[asking[b]] = "allow"
    BY <2>1, <2>6 DEF HeardInv
  <2>8. IsTrue(asking[a], "deny")
    BY <2>2, AskerAssumption DEF IsTrue
  <2>9. \A b \in Asker :
          \/ result'[b] = result[b] \/ result'[b].id = None
          \/ /\ result'[b].id \in DOMAIN fate /\ owner[result'[b].id] = b
             /\ IsTrue(result'[b].id, result'[b].decision)
    BY <2>1, <2>2, <2>8 DEF AskersTypeOK
  <2> QED BY <1>1, <2>1, <2>4, <2>5, <2>6, <2>7, <2>9, HeardKept
<1>6. CASE ReceiveAsync(a)
  <2> DEFINE heard == IF channel[a] = "closed"
                      THEN (IF a \in Agent THEN "undecided" ELSE "deny")
                      ELSE channel[a]
  <2>1. /\ a \notin Recipe /\ pc[a] = "waiting"
        /\ pc' = [pc EXCEPT ![a] = IF a \in Agent THEN "gone" ELSE "idle"]
        /\ UNCHANGED <<asking, owner, channel, decision, waitingOn, tasks>>
        /\ result' = [result EXCEPT ![a] = [id |-> asking[a], decision |-> heard]]
    BY <1>6 DEF ReceiveAsync
  <2>2. Receiving(a) /\ asking[a] \in DOMAIN fate /\ owner[asking[a]] = a
    BY <2>1 DEF Receiving, AskersInv
  <2>3. IsTrue(asking[a], heard)
    <3>1. IsTrue(asking[a], channel[a]) /\ (a \in Agent => channel[a] # "closed")
      BY <2>2 DEF HeardInv
    <3> QED BY <2>2, <3>1 DEF IsTrue
  <2> HIDE DEF heard
  <2>4. \A b \in Asker : Receiving(b)' => Receiving(b)
    BY <2>1 DEF Receiving, AskersTypeOK
  <2>5. \A b \in Recipe : /\ pc'[b] = "finishing" => pc[b] = "finishing"
                          /\ pc'[b] = "giveUp" => pc[b] = "giveUp"
    BY <2>1 DEF AskersTypeOK, Asker
  <2>6. \A b \in Recipe :
          pc'[b] = "finishing" =>
            /\ asking'[b] = asking[b]
            /\ asking[b] \in DOMAIN fate /\ owner[asking[b]] = b
            /\ decision'[b] = "allow" => fate[asking[b]] = "allow"
    BY <2>1, <2>5 DEF HeardInv
  <2>7. \A b \in Asker :
          \/ result'[b] = result[b] \/ result'[b].id = None
          \/ /\ result'[b].id \in DOMAIN fate /\ owner[result'[b].id] = b
             /\ IsTrue(result'[b].id, result'[b].decision)
    BY <2>1, <2>2, <2>3 DEF AskersTypeOK
  <2> QED BY <1>1, <2>1, <2>4, <2>5, <2>6, <2>7, HeardKept
<1>7. CASE ReceiveBlocking(a)
  <2>1. /\ a \in Recipe /\ pc[a] = "waiting"
        /\ UNCHANGED <<asking, owner, channel, result, waitingOn, tasks>>
    BY <1>7 DEF ReceiveBlocking
  <2>2. Receiving(a) /\ asking[a] \in DOMAIN fate /\ owner[asking[a]] = a
    BY <2>1 DEF Receiving, AskersInv
  <2>3. \/ pc' = [pc EXCEPT ![a] = "finishing"] /\ decision' = [decision EXCEPT ![a] = channel[a]]
        \/ pc' = [pc EXCEPT ![a] = "giveUp"] /\ decision' = [decision EXCEPT ![a] = "deny"]
    BY <1>7 DEF ReceiveBlocking
  <2>4. \A b \in Asker : Receiving(b)' => Receiving(b)
    BY <2>1, <2>3 DEF Receiving, AskersTypeOK
  <2>5. channel[a] = "allow" => fate[asking[a]] = "allow"
    BY <2>2 DEF HeardInv, IsTrue
  <2>6. ASSUME NEW b \in Recipe, pc'[b] = "finishing"
        PROVE  /\ asking[b] \in DOMAIN fate /\ owner[asking[b]] = b
               /\ decision'[b] = "allow" => fate[asking[b]] = "allow"
    <3>1. CASE b = a
      BY <2>2, <2>3, <2>5, <2>6, <3>1 DEF AskersTypeOK
    <3>2. CASE b # a
      <4>1. pc[b] = "finishing" /\ decision'[b] = decision[b]
        BY <2>3, <2>6, <3>2 DEF AskersTypeOK, Asker
      <4> QED BY <4>1 DEF HeardInv
    <3> QED BY <3>1, <3>2
  <2>7. \A b \in Recipe :
          pc'[b] = "giveUp" =>
            decision'[b] = "deny" \/ (pc[b] = "giveUp" /\ decision'[b] = decision[b])
    BY <2>1, <2>3 DEF AskersTypeOK, Asker
  <2>8. \A b \in Recipe : pc'[b] = "finishing" => asking'[b] = asking[b]
    BY <2>1
  <2> QED BY <1>1, <2>1, <2>4, <2>6, <2>7, <2>8, HeardKept
<1>8. CASE GiveUp(a)
  <2>1. /\ pc[a] = "giveUp" /\ WithdrawNow(asking[a])
        /\ pc' = [pc EXCEPT ![a] = "finishing"]
        /\ UNCHANGED <<asking, owner, decision, result, waitingOn, tasks>>
    BY <1>8 DEF GiveUp
  <2>2. a \in Recipe /\ asking[a] \in DOMAIN fate /\ owner[asking[a]] = a
    BY <2>1 DEF AskersInv, OnlyRecipesFinish, Receiving
  <2>3. \A b \in Agent : ~(Receiving(b) /\ asking[b] = asking[a])
    BY <2>2, AskerAssumption DEF AskersInv, Asker
  <2>4. \A b \in Asker :
          \/ channel'[b] \in {"empty", channel[b]}
          \/ IsTrue(asking[b], channel[b])' /\ (b \in Agent => channel'[b] # "closed")
    BY <2>1, <2>2, <2>3, WithdrawNowIsNoNews DEF AskersInv
  <2>5. \A b \in Asker : Receiving(b)' => Receiving(b)
    BY <2>1 DEF Receiving, AskersTypeOK
  <2>6. decision[a] = "deny"
    BY <2>1, <2>2 DEF HeardInv
  <2>7. ASSUME NEW b \in Recipe, pc'[b] = "finishing"
        PROVE  /\ asking[b] \in DOMAIN fate /\ owner[asking[b]] = b
               /\ decision[b] = "allow" => fate[asking[b]] = "allow"
    BY <2>1, <2>2, <2>6, <2>7 DEF HeardInv, AskersTypeOK
  <2>8. \A b \in Recipe : pc'[b] = "giveUp" => pc[b] = "giveUp"
    BY <2>1 DEF AskersTypeOK, Asker
  <2> QED BY <1>1, <2>1, <2>4, <2>5, <2>7, <2>8, HeardKept
<1>9. CASE Finish(a)
  <2>1. /\ pc[a] = "finishing" /\ pc' = [pc EXCEPT ![a] = "idle"]
        /\ waitingOn' = [waitingOn EXCEPT ![a] = IF @ = asking[a] THEN None ELSE @]
        /\ UNCHANGED <<asking, owner, channel, decision, tasks>>
    BY <1>9 DEF Finish
  <2>2. a \in Recipe
    BY <2>1 DEF AskersInv, OnlyRecipesFinish
  <2>3. /\ asking[a] \in DOMAIN fate /\ owner[asking[a]] = a
        /\ decision[a] = "allow" => fate[asking[a]] = "allow"
    BY <2>1, <2>2 DEF HeardInv
  <2>4. \A b \in Asker : Receiving(b)' => Receiving(b)
    BY <2>1 DEF Receiving, AskersTypeOK
  <2>5. \A b \in Recipe : /\ pc'[b] = "finishing" => pc[b] = "finishing"
                          /\ pc'[b] = "giveUp" => pc[b] = "giveUp"
    BY <2>1 DEF AskersTypeOK, Asker
  <2>6. \A b \in Recipe :
          pc'[b] = "finishing" =>
            /\ asking'[b] = asking[b]
            /\ asking[b] \in DOMAIN fate /\ owner[asking[b]] = b
            /\ decision'[b] = "allow" => fate[asking[b]] = "allow"
    BY <2>1, <2>5 DEF HeardInv
  <2>7. \A b \in Recipe : waitingOn'[b] \in {None, waitingOn[b]}
    BY <2>1 DEF AskersTypeOK
  <2>8. \E answer \in {"deny", decision[a]} :
          result' = [result EXCEPT ![a] = [id |-> asking[a], decision |-> answer]]
    BY <1>9 DEF Finish
  <2>9. \A answer \in {"deny", decision[a]} : IsTrue(asking[a], answer)
    BY <2>2, <2>3, AskerAssumption DEF IsTrue
  <2>10. \A b \in Asker :
          \/ result'[b] = result[b] \/ result'[b].id = None
          \/ /\ result'[b].id \in DOMAIN fate /\ owner[result'[b].id] = b
             /\ IsTrue(result'[b].id, result'[b].decision)
    BY <2>3, <2>8, <2>9 DEF AskersTypeOK
  <2> QED BY <1>1, <2>1, <2>4, <2>5, <2>6, <2>7, <2>10, HeardKept
<1> QED BY <1>2, <1>3, <1>4, <1>5, <1>6, <1>7, <1>8, <1>9 DEF AskerStep

(* What the user, the spawned tasks and the clock do to no asker's state.  *)
LEMMA HeardUndisturbed ==
  ASSUME AskersTypeOK, QueueInv, AskersInv, HeardInv, [Next]_vars,
         UNCHANGED <<asking, owner, decision, result>>,
         \A a \in Asker : pc'[a] \in {pc[a], "gone"},
         \A a \in Recipe : waitingOn'[a] \in {None, waitingOn[a]},
         \A a \in Asker :
           \/ channel'[a] \in {"empty", channel[a]}
           \/ IsTrue(asking[a], channel[a])' /\ (a \in Agent => channel'[a] # "closed"),
         \A task \in tasks' :
           \/ task \in tasks
           \/ task.do = "reply" /\ task.say # "closed" /\ IsTrue(task.id, task.say)'
           \/ /\ task.do = "withdraw" /\ task.id \in DOMAIN fate
              /\ \A a \in Agent : ~(Receiving(a)' /\ asking[a] = task.id)
  PROVE  HeardInv'
<1>1. \A id \in DOMAIN fate :
        /\ id \in DOMAIN fate' /\ owner'[id] = owner[id]
        /\ fate[id] # "pending" => fate'[id] = fate[id]
  BY RequestsStay
<1>2. \A a \in Asker : Receiving(a)' => Receiving(a) /\ asking'[a] = asking[a]
  BY DEF Receiving
<1>3. \A a \in Recipe :
        /\ pc'[a] = "finishing" => pc[a] = "finishing"
        /\ pc'[a] = "giveUp" => pc[a] = "giveUp"
  BY DEF Asker
<1>4. \A a \in Recipe :
        pc'[a] = "finishing" =>
          /\ asking'[a] = asking[a]
          /\ asking[a] \in DOMAIN fate /\ owner[asking[a]] = a
          /\ decision'[a] = "allow" => fate[asking[a]] = "allow"
  BY <1>3 DEF HeardInv
<1> QED BY <1>1, <1>2, <1>3, <1>4, HeardKept

(* Whatever the user, the spawned tasks and the clock do, the askers hear  *)
(* what was said.                                                          *)
LEMMA OthersKeepHeard ==
  ASSUME AskersTypeOK, QueueInv, AskersInv, HeardInv, [Next]_vars,
         UserStep \/ TaskStep \/ Lapse \/ TimePasses \/ UNCHANGED vars
  PROVE  HeardInv'
<1>1. ASSUME NEW id \in Id, NEW how \in {"allow", "deny"}, UserAnswers(id, how)
      PROVE  HeardInv'
  <2>1. PICK i \in DOMAIN entries : entries[i].id = id /\ Take(i, how)
    BY <1>1 DEF UserAnswers, Answer
  <2>2. id \in DOMAIN fate /\ fate' = [fate EXCEPT ![id] = how]
    BY <2>1, TakeChangesOne DEF AskersTypeOK
  <2>3. /\ UNCHANGED <<pc, asking, owner, channel, decision, result, waitingOn>>
        /\ tasks' = tasks \cup {ReplyTask(id, how)}
    BY <1>1 DEF UserAnswers
  <2>4. IsTrue(id, how)'
    BY <2>2 DEF IsTrue
  <2>5. \A task \in tasks' :
          \/ task \in tasks
          \/ task.do = "reply" /\ task.say # "closed" /\ IsTrue(task.id, task.say)'
    BY <2>3, <2>4 DEF ReplyTask
  <2> QED BY <2>3, <2>5, HeardUndisturbed
<1>2. CASE Lapse
  <2>1. entries # <<>> /\ 1 \in DOMAIN entries /\ ShownId = entries[1].id
    BY <1>2, EmptySeq, LenProperties DEF Lapse, Expire, IsDue, AskersTypeOK, QueueTypeOK, ShownId
  <2>2. ShownId \in DOMAIN fate /\ fate' = [fate EXCEPT ![ShownId] = "lapsed"]
    BY <1>2, <2>1, TakeChangesOne DEF Lapse, Expire, AskersTypeOK
  <2>3. /\ UNCHANGED <<pc, asking, owner, channel, decision, result, waitingOn>>
        /\ tasks' = tasks \cup {ReplyTask(ShownId, LapseSays(owner[ShownId]))}
    BY <1>2 DEF Lapse
  <2>4. PICK id \in DOMAIN fate, say \in {"deny", "undecided"} :
          /\ fate' = [fate EXCEPT ![id] = "lapsed"]
          /\ tasks' = tasks \cup {ReplyTask(id, say)}
          /\ say = LapseSays(owner[id])
    BY <2>2, <2>3 DEF LapseSays
  <2>5. IsTrue(id, say)'
    BY <2>3, <2>4 DEF IsTrue, LapseSays
  <2>6. \A task \in tasks' :
          \/ task \in tasks
          \/ task.do = "reply" /\ task.say # "closed" /\ IsTrue(task.id, task.say)'
    BY <2>4, <2>5 DEF ReplyTask
  <2> QED BY <2>3, <2>6, HeardUndisturbed
<1>3. ASSUME NEW id \in Id, CardArms(id)
      PROVE  HeardInv'
  BY <1>3, HeardUndisturbed DEF CardArms, askerVars
<1>4. ASSUME NEW a \in Asker, Abort(a)
      PROVE  HeardInv'
  <2>1. /\ pc[a] = "waiting" /\ pc' = [pc EXCEPT ![a] = "gone"]
        /\ tasks' = tasks \cup {WithdrawTask(asking[a])}
        /\ UNCHANGED <<asking, owner, channel, decision, result, waitingOn>>
    BY <1>4 DEF Abort
  <2>2. asking[a] \in DOMAIN fate /\ owner[asking[a]] = a
    BY <2>1 DEF Receiving, AskersInv
  <2>3. \A b \in Agent : ~(Receiving(b)' /\ asking[b] = asking[a])
    <3> SUFFICES ASSUME NEW b \in Agent, Receiving(b)', asking[b] = asking[a] PROVE FALSE
      OBVIOUS
    <3>1. b # a /\ pc'[b] = pc[b]
      BY <2>1 DEF Receiving, AskersTypeOK, Asker
    <3>2. Receiving(b)
      BY <3>1 DEF Receiving
    <3> QED BY <2>2, <3>1, <3>2 DEF AskersInv, Asker
  <2>4. \A b \in Asker : pc'[b] \in {pc[b], "gone"}
    BY <2>1 DEF AskersTypeOK
  <2>5. \A task \in tasks' :
          \/ task \in tasks
          \/ /\ task.do = "withdraw" /\ task.id \in DOMAIN fate
             /\ \A b \in Agent : ~(Receiving(b)' /\ asking[b] = task.id)
    BY <2>1, <2>2, <2>3 DEF WithdrawTask
  <2> QED BY <2>1, <2>4, <2>5, HeardUndisturbed
<1>5. ASSUME NEW a \in Asker, CancelTake(a)
      PROVE  HeardInv'
  <2>1. /\ a \in Recipe /\ waitingOn' = [waitingOn EXCEPT ![a] = None]
        /\ tasks' = IF waitingOn[a] = None THEN tasks
                    ELSE tasks \cup {WithdrawTask(waitingOn[a])}
        /\ UNCHANGED <<pc, asking, owner, channel, decision, result>>
    BY <1>5 DEF CancelTake
  <2>2. waitingOn[a] # None => waitingOn[a] \in DOMAIN fate /\ owner[waitingOn[a]] = a
    BY <2>1 DEF AskersInv, HeardInv
  <2>3. ASSUME waitingOn[a] # None, NEW b \in Agent
        PROVE  ~(Receiving(b)' /\ asking[b] = waitingOn[a])
    BY <2>1, <2>2, <2>3, AskerAssumption DEF Receiving, AskersInv, Asker
  <2>4. \A task \in tasks' :
          \/ task \in tasks
          \/ /\ task.do = "withdraw" /\ task.id \in DOMAIN fate
             /\ \A b \in Agent : ~(Receiving(b)' /\ asking[b] = task.id)
    BY <2>1, <2>2, <2>3 DEF WithdrawTask
  <2>5. \A b \in Recipe : waitingOn'[b] \in {None, waitingOn[b]}
    BY <2>1 DEF AskersTypeOK
  <2> QED BY <2>1, <2>4, <2>5, HeardUndisturbed
<1>6. ASSUME NEW task \in tasks, RunWithdraw(task)
      PROVE  HeardInv'
  <2>1. /\ WithdrawNow(task.id) /\ task.do = "withdraw" /\ tasks' = tasks \ {task}
        /\ UNCHANGED <<pc, asking, owner, decision, result, waitingOn>>
    BY <1>6 DEF RunWithdraw
  <2>2. task.id \in DOMAIN fate /\ \A a \in Agent : ~(Receiving(a) /\ asking[a] = task.id)
    BY <2>1 DEF AskersInv, HeardInv
  <2>3. \A a \in Asker :
          \/ channel'[a] \in {"empty", channel[a]}
          \/ IsTrue(asking[a], channel[a])' /\ (a \in Agent => channel'[a] # "closed")
    BY <2>1, <2>2, WithdrawNowIsNoNews DEF AskersInv
  <2> QED BY <2>1, <2>3, HeardUndisturbed
<1>7. ASSUME NEW task \in tasks, SendReply(task)
      PROVE  HeardInv'
  <2>1. /\ Deliver(task.id, task.say) /\ task.do = "reply" /\ tasks' = tasks \ {task}
        /\ UNCHANGED <<fate, pc, asking, owner, decision, result, waitingOn>>
    BY <1>7 DEF SendReply, queueVars
  <2>2. IsTrue(task.id, task.say) /\ task.say # "closed"
    BY <2>1 DEF HeardInv
  <2>3. ASSUME NEW a \in Asker, channel'[a] # channel[a]
        PROVE  IsTrue(asking[a], channel[a])' /\ (a \in Agent => channel'[a] # "closed")
    <3>1. asking[a] = task.id /\ channel'[a] = task.say
      BY <2>1, <2>3 DEF Deliver, AskersTypeOK
    <3> QED BY <2>1, <2>2, <3>1 DEF IsTrue
  <2> QED BY <2>1, <2>3, HeardUndisturbed
<1>8. CASE TimePasses
  BY <1>8, HeardUndisturbed DEF TimePasses
<1>9. CASE UNCHANGED vars
  BY <1>9, HeardUndisturbed DEF vars, askerVars
<1> QED BY <1>1, <1>2, <1>3, <1>4, <1>5, <1>6, <1>7, <1>8, <1>9 DEF UserStep, TaskStep

-----------------------------------------------------------------------------
(* A wait that is called off hands its request back to be withdrawn.       *)
LEMMA CalledOffStep ==
  ASSUME AskersTypeOK, QueueInv, AskersInv, CalledOffInv, [Next]_vars
  PROVE  CalledOffInv'
<1>1. ASSUME NEW a \in Recipe, pc[a] = "waiting", pc'[a] = "waiting",
             asking'[a] = asking[a], cancelled'[a] = cancelled[a],
             waitingOn'[a] = waitingOn[a],
             fate'[asking[a]] = "pending" /\ WithdrawTask(asking[a]) \in tasks
               => WithdrawTask(asking[a]) \in tasks'
      PROVE  /\ ~cancelled'[a] => waitingOn'[a] = asking'[a]
             /\ cancelled'[a] /\ fate'[asking'[a]] = "pending"
                  => WithdrawTask(asking'[a]) \in tasks'
  <2>1. asking[a] \in DOMAIN fate
    BY <1>1 DEF Receiving, AskersInv, Asker
  <2>2. fate'[asking[a]] = "pending" => fate[asking[a]] = "pending"
    BY <2>1, RequestsStay
  <2> QED BY <1>1, <2>2 DEF CalledOffInv
<1> DEFINE Holds(a) ==
      pc[a] = "waiting" =>
        /\ ~cancelled[a] => waitingOn[a] = asking[a]
        /\ cancelled[a] /\ fate[asking[a]] = "pending"
             => WithdrawTask(asking[a]) \in tasks
<1>2. ASSUME UNCHANGED <<cancelled, waitingOn>>,
             \A a \in Recipe : pc'[a] = "waiting" => pc[a] = "waiting" /\ asking'[a] = asking[a],
             \A id \in DOMAIN fate : fate'[id] = "pending" /\ WithdrawTask(id) \in tasks
                                    => WithdrawTask(id) \in tasks'
      PROVE  CalledOffInv'
  <2> SUFFICES ASSUME NEW a \in Recipe, pc'[a] = "waiting"
               PROVE  Holds(a)'
    BY DEF CalledOffInv
  <2>1. asking[a] \in DOMAIN fate
    BY <1>2 DEF Receiving, AskersInv, Asker
  <2> QED BY <1>1, <1>2, <2>1
<1>3. ASSUME NEW a \in Asker, AskerStep(a)
      PROVE  CalledOffInv'
  <2>1. CASE WaitOn(a)
    <3>1. /\ a \in Recipe /\ UNCHANGED <<fate, asking, cancelled, tasks>>
          /\ \/ pc' = [pc EXCEPT ![a] = "calledOff"] /\ waitingOn' = waitingOn
             \/ /\ pc' = [pc EXCEPT ![a] = "waiting"] /\ ~cancelled[a]
                /\ waitingOn' = [waitingOn EXCEPT ![a] = asking[a]]
      BY <2>1, Zenon DEF WaitOn, queueVars
    <3> SUFFICES ASSUME NEW b \in Recipe, pc'[b] = "waiting" PROVE Holds(b)'
      BY DEF CalledOffInv
    <3>2. CASE b = a
      BY <3>1, <3>2 DEF AskersTypeOK
    <3>3. CASE b # a
      BY <1>1, <3>1, <3>3 DEF AskersTypeOK, Asker
    <3> QED BY <3>2, <3>3
  <2>2. CASE Finish(a)
    <3>1. /\ pc[a] = "finishing" /\ pc' = [pc EXCEPT ![a] = "idle"]
          /\ waitingOn' = [waitingOn EXCEPT ![a] = IF @ = asking[a] THEN None ELSE @]
          /\ UNCHANGED <<fate, asking, cancelled, tasks>>
      BY <2>2 DEF Finish, queueVars
    <3> SUFFICES ASSUME NEW b \in Recipe, pc'[b] = "waiting" PROVE Holds(b)'
      BY DEF CalledOffInv
    <3>2. b # a /\ pc[b] = "waiting" /\ waitingOn'[b] = waitingOn[b]
      BY <3>1 DEF AskersTypeOK, Asker
    <3> QED BY <1>1, <3>1, <3>2
  <2>3. CASE Submit(a)
    <3>1. /\ pc' = [pc EXCEPT ![a] = "submitting"] /\ asking' = [asking EXCEPT ![a] = nextId]
          /\ UNCHANGED <<waitingOn, cancelled, tasks>>
      BY <2>3 DEF Submit
    <3>2. \A b \in Recipe : pc'[b] = "waiting" => pc[b] = "waiting" /\ asking'[b] = asking[b]
      BY <3>1 DEF AskersTypeOK, Asker
    <3> QED BY <1>2, <3>1, <3>2
  <2>4. CASE CheckCancelled(a) \/ Await(a) \/ CallOff(a) \/ ReceiveAsync(a)
             \/ ReceiveBlocking(a) \/ GiveUp(a)
    <3>1. UNCHANGED <<asking, waitingOn, cancelled, tasks>>
      BY <2>4 DEF CheckCancelled, Await, CallOff, ReceiveAsync, ReceiveBlocking, GiveUp
    <3>2. /\ a \in Recipe \/ Await(a) \/ ReceiveAsync(a) \/ CallOff(a) \/ GiveUp(a)
          /\ \E where \in {"idle", "checked", "waiting", "giveUp", "finishing", "gone", pc[a]} :
               /\ where = "waiting" => a \notin Recipe
               /\ pc' = [pc EXCEPT ![a] = where]
      BY <2>4 DEF CheckCancelled, Await, CallOff, ReceiveAsync, ReceiveBlocking, GiveUp,
                  AskersTypeOK
    <3>3. \A b \in Recipe : pc'[b] = "waiting" => pc[b] = "waiting"
      BY <3>2 DEF AskersTypeOK, Asker
    <3> QED BY <1>2, <3>1, <3>3
  <2> QED BY <1>3, <2>1, <2>2, <2>3, <2>4 DEF AskerStep
<1>4. ASSUME NEW id \in Id, NEW how \in {"allow", "deny"}, UserAnswers(id, how)
      PROVE  CalledOffInv'
  BY <1>2, <1>4 DEF UserAnswers
<1>5. ASSUME NEW id \in Id, CardArms(id)
      PROVE  CalledOffInv'
  BY <1>2, <1>5 DEF CardArms, askerVars
<1>6. ASSUME NEW a \in Asker, Abort(a)
      PROVE  CalledOffInv'
  <2>1. \A b \in Recipe : pc'[b] = "waiting" => pc[b] = "waiting"
    BY <1>6 DEF Abort, AskersTypeOK, Asker
  <2> QED BY <1>2, <1>6, <2>1 DEF Abort
<1>7. ASSUME NEW a \in Asker, CancelTake(a)
      PROVE  CalledOffInv'
  <2>1. /\ a \in Recipe /\ ~cancelled[a] /\ waitingOn' = [waitingOn EXCEPT ![a] = None]
        /\ cancelled' = [cancelled EXCEPT ![a] = TRUE]
        /\ tasks' = IF waitingOn[a] = None THEN tasks
                    ELSE tasks \cup {WithdrawTask(waitingOn[a])}
        /\ UNCHANGED <<fate, pc, asking>>
    BY <1>7 DEF CancelTake, queueVars
  <2> SUFFICES ASSUME NEW b \in Recipe, pc'[b] = "waiting" PROVE Holds(b)'
    BY DEF CalledOffInv
  <2>2. CASE b = a
    <3>1. waitingOn[a] = asking[a] /\ asking[a] \in DOMAIN fate
      BY <2>1, <2>2 DEF CalledOffInv, Receiving, AskersInv, Asker
    <3>2. asking[a] # None
      BY <3>1, LenProperties DEF AskersTypeOK, QueueTypeOK, None
    <3>3. WithdrawTask(asking[a]) \in tasks' /\ cancelled'[a] /\ asking' = asking
      BY <2>1, <3>1, <3>2 DEF AskersTypeOK
    <3> QED BY <2>2, <3>3 DEF WithdrawTask
  <2>3. CASE b # a
    BY <1>1, <2>1, <2>3 DEF AskersTypeOK
  <2> QED BY <2>2, <2>3
<1>8. ASSUME NEW task \in tasks, RunWithdraw(task)
      PROVE  CalledOffInv'
  <2>1. /\ WithdrawNow(task.id) /\ task.id \in DOMAIN fate /\ tasks' = tasks \ {task}
        /\ UNCHANGED <<pc, asking, cancelled, waitingOn>>
    BY <1>8 DEF RunWithdraw, AskersInv
  <2>2. fate'[task.id] # "pending"
    BY <2>1, WithdrawNowSettles
  <2>3. \A id \in DOMAIN fate : fate'[id] = "pending" /\ WithdrawTask(id) \in tasks
                                => WithdrawTask(id) \in tasks'
    BY <2>1, <2>2 DEF WithdrawTask
  <2> QED BY <1>2, <2>1, <2>3
<1>9. ASSUME NEW task \in tasks, SendReply(task)
      PROVE  CalledOffInv'
  BY <1>2, <1>9 DEF SendReply, WithdrawTask
<1>10. CASE Lapse
  BY <1>2, <1>10 DEF Lapse
<1>11. CASE TimePasses
  BY <1>2, <1>11 DEF TimePasses
<1>12. CASE UNCHANGED vars
  BY <1>2, <1>12 DEF vars, askerVars
<1> QED BY <1>3, <1>4, <1>5, <1>6, <1>7, <1>8, <1>9, <1>10, <1>11, <1>12
        DEF Next, UserStep, TaskStep

(* Both hold throughout, from the first request on.                        *)
LEMMA HeardInvariant == Spec => [](HeardInv /\ CalledOffInv)
<1>1. Init => HeardInv /\ CalledOffInv
  BY DEF Init, HeardInv, CalledOffInv, HeardWhatWasSaid, Receiving, None, Asker
<1>2. /\ AskersTypeOK /\ QueueInv /\ AskersInv
      /\ HeardInv /\ CalledOffInv
      /\ [Next]_vars
      => HeardInv' /\ CalledOffInv'
  BY AskerStepKeepsHeard, OthersKeepHeard, CalledOffStep DEF Next
<1> QED BY <1>1, <1>2, AskersInvariant, PTL DEF Spec

(* An asker hears what became of its own request: no command step or       *)
(* recipe runs unless the user pressed Allow on that very request, and an  *)
(* agent is told Deny only if the user said so, whatever is withdrawn,     *)
(* lapses, or is aborted meanwhile.                                        *)
THEOREM AskersHearWhatWasSaid == Spec => []HeardWhatWasSaid
BY HeardInvariant, PTL DEF HeardInv

(* A called-off take's card comes down: however the cancel races the push, *)
(* wait_on and the answer, a cancelled take that waits for a pending       *)
(* request has a withdrawal of that request on its way.                    *)
THEOREM CalledOffCardsComeDown == Spec => []CancelledCardComesDown
<1>1. AskersTypeOK /\ QueueInv /\ AskersInv /\ CalledOffInv => CancelledCardComesDown
  <2> SUFFICES ASSUME AskersTypeOK, QueueInv, AskersInv, CalledOffInv,
                      NEW a \in Recipe, cancelled[a], pc[a] = "waiting", IsPending(asking[a])
               PROVE  WithdrawTask(asking[a]) \in tasks
    BY DEF CancelledCardComesDown
  <2>1. asking[a] \in DOMAIN fate
    BY DEF Receiving, AskersInv, Asker
  <2>2. fate[asking[a]] = "pending"
    BY <2>1 DEF QueueInv, OldestFirst
  <2> QED BY <2>2 DEF CalledOffInv
<1> QED BY <1>1, AskersInvariant, HeardInvariant, PTL

(* Once a take is called off, whatever it asks or was asking returns Deny, *)
(* an Allow that was already in its channel included.                      *)
THEOREM CalledOffTakesAreDenied == Spec => CancelledTakeIsDenied
<1> DEFINE Denied == \A a \in Recipe :
                       cancelled[a] /\ result'[a] # result[a] => result'[a].decision = "deny"
<1>1. AskersTypeOK /\ [Next]_vars => Denied
  <2> SUFFICES ASSUME AskersTypeOK, [Next]_vars, NEW a \in Recipe,
                      cancelled[a], result'[a] # result[a]
               PROVE  result'[a].decision = "deny"
    OBVIOUS
  <2>1. PICK b \in Asker : AskerStep(b) /\ result' # result
    BY DEF Next, UserStep, UserAnswers, CardArms, Abort, CancelTake, TaskStep, RunWithdraw,
           SendReply, Lapse, TimePasses, vars, askerVars
  <2>2. CASE CheckCancelled(b) \/ CallOff(b)
    <3>1. \/ result' = result
          \/ result' = [result EXCEPT ![b] = [id |-> None, decision |-> "deny"]]
          \/ result' = [result EXCEPT ![b] = [id |-> asking[b], decision |-> "deny"]]
      BY <2>2, Zenon DEF CheckCancelled, CallOff
    <3> QED BY <2>1, <3>1 DEF AskersTypeOK, Asker
  <2>3. CASE ReceiveAsync(b)
    <3>1. b \notin Recipe /\ \E answer : result' = [result EXCEPT ![b] = answer]
      BY <2>3 DEF ReceiveAsync
    <3> QED BY <3>1 DEF AskersTypeOK
  <2>4. CASE Finish(b)
    <3>1. PICK answer : /\ result' = [result EXCEPT ![b] = [id |-> asking[b], decision |-> answer]]
                        /\ cancelled[b] => answer = "deny"
      BY <2>4 DEF Finish
    <3> QED BY <2>1, <3>1 DEF AskersTypeOK
  <2> QED BY <2>1, <2>2, <2>3, <2>4
          DEF AskerStep, Submit, Await, WaitOn, ReceiveBlocking, GiveUp
<1> QED BY <1>1, AskersTypeCorrect, PTL DEF Spec, CancelledTakeIsDenied
=============================================================================
