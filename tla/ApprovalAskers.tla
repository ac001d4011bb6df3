--------------------------- MODULE ApprovalAskers ---------------------------
(***************************************************************************)
(* The askers of the approval broker (src-tauri/src/approval.rs ask,       *)
(* ask_agent, ask_blocking, cancel, Pending::drop) over the queue they     *)
(* share: a command-mode task, a coding agent's connection and a recipe's  *)
(* thread each push a request and wait for the answer on a channel of      *)
(* their own. A task can be aborted while it waits; a recipe's thread can  *)
(* only be called off through its Cancel.                                  *)
(*                                                                         *)
(* Each lock of the queue or of a Cancel is one step, so everything the    *)
(* code does between two locks can be overtaken. A reply is sent after the *)
(* queue is let go and is a step of its own. The call of `changed` that    *)
(* ends submit is the state "submitting"; what it does is ApprovalSide.    *)
(***************************************************************************)
EXTENDS ApprovalQueue

CONSTANTS
  Command,      \* command-mode tasks: Reply::Async
  Agent,        \* agent connections: Reply::Agent
  Recipe,       \* recipe takes, each with a Cancel: Reply::Blocking
  Backstop      \* BLOCKING_BACKSTOP

ASSUME BackstopAssumption == Backstop \in Nat /\ Backstop > Timeout
ASSUME AskerAssumption ==
  Command \cap Agent = {} /\ (Command \cup Agent) \cap Recipe = {}

Asker == Command \cup Agent \cup Recipe

VARIABLES
  pc,           \* where each asker is
  asking,       \* the id submit returned to each asker last
  owner,        \* owner[id]: whose channel entry id replies on
  channel,      \* what is in each asker's receiver
  decision,     \* ask_blocking's local, between the receive and `done`
  result,       \* history: the last answer each asker returned, and to what
  waited,       \* ticks a recipe's thread has been in recv_timeout
  cancelled,    \* CancelState::cancelled
  waitingOn,    \* CancelState::waiting, 0 for None
  tasks         \* spawned or running: withdraw(id), and replies to send

askerVars == <<pc, asking, owner, channel, decision, result, waited, cancelled, waitingOn,
               tasks>>
vars == <<queueVars, askerVars>>

None == 0

Receiving(a) == pc[a] \in {"submitting", "calledOff", "waiting", "giveUp"}

WithdrawTask(id) == [do |-> "withdraw", id |-> id, say |-> "closed"]
ReplyTask(id, what) == [do |-> "reply", id |-> id, say |-> what]

(* A value for request id's receiver, if the asker still holds it.         *)
Deliver(id, what) ==
  LET a == owner[id]
  IN  channel' = IF Receiving(a) /\ asking[a] = id
                 THEN [channel EXCEPT ![a] = what]
                 ELSE channel

Init ==
  /\ QueueInit
  /\ pc = [a \in Asker |-> "idle"]
  /\ asking = [a \in Asker |-> None]
  /\ owner = <<>>
  /\ channel = [a \in Asker |-> "empty"]
  /\ decision = [a \in Recipe |-> "deny"]
  /\ result = [a \in Asker |-> [id |-> None, decision |-> "deny"]]
  /\ waited = [a \in Recipe |-> 0]
  /\ cancelled = [a \in Recipe |-> FALSE]
  /\ waitingOn = [a \in Recipe |-> None]
  /\ tasks = {}

-----------------------------------------------------------------------------
(* Asking                                                                  *)

(* ask_blocking: is_cancelled is looked at first.                          *)
CheckCancelled(a) ==
  /\ a \in Recipe
  /\ pc[a] = "idle"
  /\ IF cancelled[a]
     THEN /\ result' = [result EXCEPT ![a] = [id |-> None, decision |-> "deny"]]
          /\ UNCHANGED pc
     ELSE /\ pc' = [pc EXCEPT ![a] = "checked"]
          /\ UNCHANGED result
  /\ UNCHANGED <<queueVars, asking, owner, channel, decision, waited, cancelled, waitingOn,
                 tasks>>

(* submit: the push. A fresh channel comes with the request.               *)
Submit(a) ==
  /\ pc[a] = IF a \in Recipe THEN "checked" ELSE "idle"
  /\ Push
  /\ pc' = [pc EXCEPT ![a] = "submitting"]
  /\ asking' = [asking EXCEPT ![a] = nextId]
  /\ owner' = Append(owner, a)
  /\ channel' = [channel EXCEPT ![a] = "empty"]
  /\ UNCHANGED <<decision, result, waited, cancelled, waitingOn, tasks>>

(* submit has returned; an async asker awaits its receiver.                *)
Await(a) ==
  /\ a \notin Recipe
  /\ pc[a] = "submitting"
  /\ pc' = [pc EXCEPT ![a] = "waiting"]
  /\ UNCHANGED <<queueVars, asking, owner, channel, decision, result, waited, cancelled,
                 waitingOn, tasks>>

Mut_WaitOnUnchecked(a) ==
  /\ a \in Recipe
  /\ pc[a] = "submitting"
  /\ pc' = [pc EXCEPT ![a] = "waiting"]
  /\ waitingOn' = [waitingOn EXCEPT ![a] = asking[a]]
  /\ waited' = [waited EXCEPT ![a] = 0]
  /\ UNCHANGED <<queueVars, asking, owner, channel, decision, result, cancelled, tasks>>

(* Cancel::wait_on, which refuses a wait that was called off already.      *)
WaitOn(a) ==
  /\ a \in Recipe
  /\ pc[a] = "submitting"
  /\ IF cancelled[a]
     THEN /\ pc' = [pc EXCEPT ![a] = "calledOff"]
          /\ UNCHANGED <<waitingOn, waited>>
     ELSE /\ pc' = [pc EXCEPT ![a] = "waiting"]
          /\ waitingOn' = [waitingOn EXCEPT ![a] = asking[a]]
          /\ waited' = [waited EXCEPT ![a] = 0]
  /\ UNCHANGED <<queueVars, asking, owner, channel, decision, result, cancelled, tasks>>

(* A withdrawal: the entry leaves if it is still there, and its sender is  *)
(* dropped with it.                                                        *)
WithdrawNow(id) ==
  IF IsPending(id)
  THEN Withdraw(id) /\ Deliver(id, "closed")
  ELSE UNCHANGED <<queueVars, channel>>

(* wait_on said no: withdraw the request and answer Deny, without `done`.  *)
CallOff(a) ==
  /\ pc[a] = "calledOff"
  /\ WithdrawNow(asking[a])
  /\ pc' = [pc EXCEPT ![a] = "idle"]
  /\ result' = [result EXCEPT ![a] = [id |-> asking[a], decision |-> "deny"]]
  /\ UNCHANGED <<asking, owner, decision, waited, cancelled, waitingOn, tasks>>

-----------------------------------------------------------------------------
(* The answer                                                              *)

(* rx.await: a dropped sender is Deny for command mode and "ask in your    *)
(* own prompt" for an agent. The Pending guard is disarmed in the same     *)
(* poll. An agent's connection asks once.                                  *)
ReceiveAsync(a) ==
  /\ a \notin Recipe
  /\ pc[a] = "waiting"
  /\ channel[a] # "empty"
  /\ pc' = [pc EXCEPT ![a] = IF a \in Agent THEN "gone" ELSE "idle"]
  /\ LET dropped == IF a \in Agent THEN "undecided" ELSE "deny"
         heard == IF channel[a] = "closed" THEN dropped ELSE channel[a]
     IN  result' = [result EXCEPT ![a] = [id |-> asking[a], decision |-> heard]]
  /\ UNCHANGED <<queueVars, asking, owner, channel, decision, waited, cancelled, waitingOn,
                 tasks>>

(* recv_timeout returns the answer, or an error: the sender is gone, or    *)
(* the backstop ran out.                                                   *)
ReceiveBlocking(a) ==
  /\ a \in Recipe
  /\ pc[a] = "waiting"
  /\ \/ /\ channel[a] \in {"allow", "deny"}
        /\ decision' = [decision EXCEPT ![a] = channel[a]]
        /\ pc' = [pc EXCEPT ![a] = "finishing"]
     \/ /\ channel[a] = "closed" \/ (channel[a] = "empty" /\ waited[a] = Backstop)
        /\ decision' = [decision EXCEPT ![a] = "deny"]
        /\ pc' = [pc EXCEPT ![a] = "giveUp"]
  /\ UNCHANGED <<queueVars, asking, owner, channel, result, waited, cancelled, waitingOn,
                 tasks>>

GiveUp(a) ==
  /\ pc[a] = "giveUp"
  /\ WithdrawNow(asking[a])
  /\ pc' = [pc EXCEPT ![a] = "finishing"]
  /\ UNCHANGED <<asking, owner, decision, result, waited, cancelled, waitingOn, tasks>>

Mut_FinishUnchecked(a) ==
  /\ pc[a] = "finishing"
  /\ pc' = [pc EXCEPT ![a] = "idle"]
  /\ waitingOn' = [waitingOn EXCEPT ![a] = IF @ = asking[a] THEN None ELSE @]
  /\ result' = [result EXCEPT ![a] = [id |-> asking[a], decision |-> decision[a]]]
  /\ UNCHANGED <<queueVars, asking, owner, channel, decision, waited, cancelled, tasks>>

(* Cancel::done: an answer that raced the cancel doesn't count.            *)
Finish(a) ==
  /\ pc[a] = "finishing"
  /\ pc' = [pc EXCEPT ![a] = "idle"]
  /\ waitingOn' = [waitingOn EXCEPT ![a] = IF @ = asking[a] THEN None ELSE @]
  /\ LET answer == IF cancelled[a] THEN "deny" ELSE decision[a]
     IN  result' = [result EXCEPT ![a] = [id |-> asking[a], decision |-> answer]]
  /\ UNCHANGED <<queueVars, asking, owner, channel, decision, waited, cancelled, tasks>>

-----------------------------------------------------------------------------
(* Going away                                                              *)

Mut_AbortKeepsCard(a) ==
  /\ a \notin Recipe
  /\ pc[a] = "waiting"
  /\ pc' = [pc EXCEPT ![a] = "gone"]
  /\ UNCHANGED <<queueVars, asking, owner, channel, decision, result, waited, cancelled,
                 waitingOn, tasks>>

(* The future is dropped at its await: a new take aborts the command, or   *)
(* the agent's hook went away. Pending::drop spawns the withdrawal.        *)
Abort(a) ==
  /\ a \notin Recipe
  /\ pc[a] = "waiting"
  /\ pc' = [pc EXCEPT ![a] = "gone"]
  /\ tasks' = tasks \cup {WithdrawTask(asking[a])}
  /\ UNCHANGED <<queueVars, asking, owner, channel, decision, result, waited, cancelled,
                 waitingOn>>

(* cancel: Cancel::cancel hands back the request being waited on, whose    *)
(* withdrawal is spawned.                                                  *)
CancelTake(a) ==
  /\ a \in Recipe
  /\ ~cancelled[a]
  /\ cancelled' = [cancelled EXCEPT ![a] = TRUE]
  /\ waitingOn' = [waitingOn EXCEPT ![a] = None]
  /\ tasks' = IF waitingOn[a] = None
              THEN tasks
              ELSE tasks \cup {WithdrawTask(waitingOn[a])}
  /\ UNCHANGED <<queueVars, pc, asking, owner, channel, decision, result, waited>>

-----------------------------------------------------------------------------
(* The broker's side                                                       *)

RunWithdraw(task) ==
  /\ task \in tasks
  /\ task.do = "withdraw"
  /\ WithdrawNow(task.id)
  /\ tasks' = tasks \ {task}
  /\ UNCHANGED <<pc, asking, owner, decision, result, waited, cancelled, waitingOn>>

(* answer: the entry leaves the queue; its reply is sent afterwards.       *)
UserAnswers(id, how) ==
  /\ Answer(id, how)
  /\ tasks' = tasks \cup {ReplyTask(id, how)}
  /\ UNCHANGED <<pc, asking, owner, channel, decision, result, waited, cancelled, waitingOn>>

Mut_LapseSays(a) == "deny"

(* Reply::lapse: Ottid's own asker hears Deny, an agent hears nobody       *)
(* answered.                                                               *)
LapseSays(a) == IF a \in Agent THEN "undecided" ELSE "deny"

Lapse ==
  /\ Expire
  /\ tasks' = tasks \cup {ReplyTask(ShownId, LapseSays(owner[ShownId]))}
  /\ UNCHANGED <<pc, asking, owner, channel, decision, result, waited, cancelled, waitingOn>>

(* Reply::send.                                                            *)
SendReply(task) ==
  /\ task \in tasks
  /\ task.do = "reply"
  /\ Deliver(task.id, task.say)
  /\ tasks' = tasks \ {task}
  /\ UNCHANGED <<queueVars, pc, asking, owner, decision, result, waited, cancelled,
                 waitingOn>>

CardArms(id) == Arm(id) /\ UNCHANGED askerVars

(* Time passes for the request on screen and in every recv_timeout.        *)
TimePasses ==
  /\ \/ Tick
     \/ /\ entries = <<>>
        /\ UNCHANGED queueVars
  /\ waited' = [a \in Recipe |->
                  IF pc[a] = "waiting" /\ waited[a] < Backstop
                  THEN waited[a] + 1
                  ELSE waited[a]]
  /\ UNCHANGED <<pc, asking, owner, channel, decision, result, cancelled, waitingOn, tasks>>

AskerStep(a) ==
  \/ CheckCancelled(a) \/ Submit(a)
  \/ Await(a) \/ WaitOn(a) \/ CallOff(a)
  \/ ReceiveAsync(a) \/ ReceiveBlocking(a) \/ GiveUp(a) \/ Finish(a)

UserStep ==
  \/ \E id \in Id, how \in {"allow", "deny"} : UserAnswers(id, how)
  \/ \E id \in Id : CardArms(id)
  \/ \E a \in Asker : Abort(a) \/ CancelTake(a)

TaskStep == \E task \in tasks : RunWithdraw(task) \/ SendReply(task)

Next ==
  \/ \E a \in Asker : AskerStep(a)
  \/ UserStep
  \/ TaskStep
  \/ Lapse
  \/ TimePasses

(* Threads and spawned tasks run, time passes and the broker's timer       *)
(* lapses what is due. Nobody has to ask, answer, abort or cancel.         *)
Fairness ==
  /\ \A a \in Asker :
       /\ WF_vars(Await(a) \/ WaitOn(a) \/ CallOff(a))
       /\ WF_vars(ReceiveAsync(a) \/ ReceiveBlocking(a) \/ GiveUp(a) \/ Finish(a))
  /\ \A id \in Id :
       /\ WF_vars(RunWithdraw(WithdrawTask(id)))
       /\ \A what \in {"allow", "deny", "undecided"} :
            WF_vars(SendReply(ReplyTask(id, what)))
  /\ WF_vars(Lapse)
  /\ WF_vars(TimePasses)

Spec == Init /\ [][Next]_vars /\ Fairness

-----------------------------------------------------------------------------
(* Properties                                                              *)

(* Types.                                                                  *)
AskersTypeOK ==
  /\ QueueTypeOK
  /\ pc \in [Asker -> {"idle", "checked", "submitting", "calledOff", "waiting",
                       "giveUp", "finishing", "gone"}]
  /\ asking \in [Asker -> Id \cup {None}]
  /\ owner \in Seq(Asker) /\ Len(owner) = Len(fate)
  /\ channel \in [Asker -> {"empty", "allow", "deny", "undecided", "closed"}]
  /\ decision \in [Recipe -> {"allow", "deny"}]
  /\ result \in [Asker -> [id : Id \cup {None},
                           decision : {"allow", "deny", "undecided"}]]
  /\ waited \in [Recipe -> 0 .. Backstop]
  /\ cancelled \in [Recipe -> BOOLEAN]
  /\ waitingOn \in [Recipe -> Id \cup {None}]
  /\ tasks \subseteq [do : {"withdraw", "reply"}, id : Id,
                      say : {"allow", "deny", "undecided", "closed"}]

(* No card without an asker: each pending request is one its asker still   *)
(* waits for, or its withdrawal is on its way (Pending::drop, cancel). An  *)
(* orphan would keep every later request off the screen for TIMEOUT, and   *)
(* Allow on it would run nothing.                                          *)
NoOrphanedCard ==
  \A id \in DOMAIN owner :
    IsPending(id) =>
      \/ Receiving(owner[id]) /\ asking[owner[id]] = id
      \/ WithdrawTask(id) \in tasks

(* What an asker hears is what happened to its own request: Allow only if  *)
(* the user allowed that request, and an agent hears Deny only if the user *)
(* denied it, never because nobody answered.                               *)
HeardWhatWasSaid ==
  \A a \in Asker :
    LET id == result[a].id
    IN  id # None =>
          /\ owner[id] = a
          /\ result[a].decision = "allow" => fate[id] = "allow"
          /\ a \in Agent =>
               /\ result[a].decision = "deny" => fate[id] = "deny"
               /\ result[a].decision = "undecided" => fate[id] = "lapsed"

(* "a later Allow would still run the step" (Cancel's comment): once a     *)
(* take is called off, whatever it asks or was asking returns Deny, even   *)
(* if the Allow was given, or was on its way, before the cancel.           *)
CancelledTakeIsDenied ==
  [][\A a \in Recipe :
       cancelled[a] /\ result'[a] # result[a] => result'[a].decision = "deny"]_vars

(* A called-off take's card comes down: the race of cancel against the     *)
(* push and wait_on leaves no wait that nobody withdraws.                  *)
CancelledCardComesDown ==
  \A a \in Recipe :
    cancelled[a] /\ pc[a] = "waiting" /\ IsPending(asking[a])
      => WithdrawTask(asking[a]) \in tasks

(* Every ask returns, without anyone answering it.                         *)
EveryAskReturns ==
  \A a \in Asker : pc[a] = "submitting" ~> pc[a] \in {"idle", "gone"}
=============================================================================
