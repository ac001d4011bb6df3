---------------------------- MODULE CommandTake ----------------------------
(***************************************************************************)
(* Command mode: the takes the shell starts, replaces and cancels          *)
(* (apps/desktop/src-tauri/src/command_mode.rs), the recipe tried first,   *)
(* and the dispatch loop between the language model and the tools          *)
(* (packages/shared-rust/src/command_mode.rs, tool.rs).                    *)
(***************************************************************************)
EXTENDS Naturals, Sequences, FiniteSets

CONSTANTS
  Takes,      \* 1..n: the takes of a behaviour, in the order they start
  MaxTurns,   \* MAX_TURNS
  Budget,     \* TAKE_BUDGET; a chat or a tool costs 0 or 1
  MaxCalls,   \* bound: tool calls of one reply
  Steps,      \* bound: steps of a recipe
  Cancels     \* the user may cancel (TRUE, FALSE)

(* The registry's tools by how the dispatcher treats them, and a name the  *)
(* model made up.                                                          *)
Kinds == {"observe", "interact", "confirm", "unknown"}
Registry == Kinds \ {"unknown"}
Replies == UNION {[1..n -> Kinds] : n \in 0..MaxCalls}

VARIABLES
  pc,        \* take -> where its task stands
  turn,      \* take -> turns used
  calls,     \* take -> calls of the last reply still to handle
  busy,      \* take -> interactive_ran_this_turn
  msgs,      \* take -> the conversation after [system, user]
  clock,     \* take -> time spent
  recipe,    \* take -> steps its blocked recipe thread still has to run
  stopped,   \* takes that were stopped: aborted, their approvals called off
  slot,      \* ActiveDispatch
  placed,    \* takes that were put there
  shown,     \* the tongue: "idle" or "thinking"
  results    \* command:result events emitted (bounded by the takes and cancels)

taskVars == <<turn, calls, busy, msgs, clock>>
vars == <<pc, taskVars, recipe, stopped, slot, placed, shown, results>>

NoTake == 0
Over(t) == pc[t] \in {"new", "done", "aborted"}
Awaits == {"cascade", "recipe", "resolve", "chat", "ask", "exec"}

Init ==
  /\ pc = [t \in Takes |-> "new"] /\ turn = [t \in Takes |-> 0]
  /\ calls = [t \in Takes |-> <<>>] /\ busy = [t \in Takes |-> FALSE]
  /\ msgs = [t \in Takes |-> <<>>] /\ clock = [t \in Takes |-> 0]
  /\ recipe = [t \in Takes |-> 0]
  /\ stopped = {} /\ slot = NoTake /\ placed = {} /\ shown = "idle" /\ results = 0

Goto(t, there) == pc' = [pc EXCEPT ![t] = there]
Push(t, m) == msgs' = [msgs EXCEPT ![t] = Append(@, m)]

-----------------------------------------------------------------------------
(* dispatch_transcript: the task is spawned, and runs, before the slot     *)
(* learns of it and the previous take is stopped.                          *)

Spawn(t) ==
  /\ pc[t] = "new" /\ \A u \in Takes : u < t => pc[u] # "new"
  /\ Goto(t, "cascade")
  /\ UNCHANGED <<taskVars, recipe, stopped, slot, placed, shown, results>>

Mut_Stop(t) == {}
Stop(t) == IF t = NoTake THEN {} ELSE {t}

Replace(t) ==
  /\ pc[t] # "new" /\ t \notin placed /\ placed' = placed \cup {t}
  /\ slot' = t /\ stopped' = stopped \cup Stop(slot)
  /\ UNCHANGED <<pc, taskVars, recipe, shown, results>>

(* The abort takes effect where the task awaits; a tool or a recipe on a   *)
(* blocked thread is not reached by it.                                    *)
Dropped(t) ==
  /\ t \in stopped /\ pc[t] \in Awaits /\ Goto(t, "aborted")
  /\ UNCHANGED <<taskVars, recipe, stopped, slot, placed, shown, results>>

CancelCommand ==
  /\ Cancels /\ slot # NoTake /\ slot' = NoTake /\ stopped' = stopped \cup Stop(slot)
  /\ shown' = "idle" /\ results' = results + 1
  /\ UNCHANGED <<pc, taskVars, recipe, placed>>

-----------------------------------------------------------------------------
(* run: the recipe cascade, then the provider.                             *)

(* command:result and command:state "idle" close every take, whether it    *)
(* worked or failed.                                                       *)
Mut_Close(t) ==
  /\ Goto(t, "done") /\ results' = results + 1
  /\ shown' = IF pc[t] = "chat" THEN shown ELSE "idle"
Close(t) == Goto(t, "done") /\ results' = results + 1 /\ shown' = "idle"

CascadeMiss(t) ==
  /\ pc[t] = "cascade" /\ Goto(t, "resolve")
  /\ UNCHANGED <<taskVars, recipe, stopped, slot, placed, shown, results>>

CascadeHit(t) ==
  /\ pc[t] = "cascade" /\ Goto(t, "recipe") /\ recipe' = [recipe EXCEPT ![t] = Steps]
  /\ UNCHANGED <<taskVars, stopped, slot, placed, shown, results>>

(* A step on the recipe's thread; one that must be confirmed is refused    *)
(* once the take's approvals are called off, which ends the run.           *)
RecipeStep(t, confirm, ok) ==
  /\ recipe[t] > 0
  /\ confirm => (ok => t \notin stopped)
  /\ recipe' = [recipe EXCEPT ![t] = IF ok THEN @ - 1 ELSE 0]
  /\ UNCHANGED <<pc, taskVars, stopped, slot, placed, shown, results>>

RecipeEnds(t) ==
  /\ pc[t] = "recipe" /\ recipe[t] = 0 /\ Close(t)
  /\ UNCHANGED <<taskVars, recipe, stopped, slot, placed>>

Resolve(t, ok) ==
  /\ pc[t] = "resolve"
  /\ IF ok THEN Goto(t, "turn") /\ shown' = "thinking" /\ UNCHANGED results
           ELSE Close(t)
  /\ UNCHANGED <<taskVars, recipe, stopped, slot, placed>>

-----------------------------------------------------------------------------
(* dispatch: one turn after another.                                       *)

Cost(t, c) == clock' = [clock EXCEPT ![t] = @ + c]

Mut_CapReached(t) == FALSE
CapReached(t) == turn[t] = MaxTurns

TurnEnds(t) ==
  /\ pc[t] = "turn" /\ (CapReached(t) \/ clock[t] > Budget)
  /\ Close(t)
  /\ UNCHANGED <<taskVars, recipe, stopped, slot, placed>>

Think(t) ==
  /\ pc[t] = "turn" /\ ~CapReached(t) /\ clock[t] <= Budget
  /\ Goto(t, "chat") /\ shown' = "thinking"
  /\ UNCHANGED <<taskVars, recipe, stopped, slot, placed, results>>

ChatFails(t) ==
  /\ pc[t] = "chat" /\ Close(t)
  /\ UNCHANGED <<taskVars, recipe, stopped, slot, placed>>

(* The assistant's turn is kept; a reply without calls is the final text.  *)
ChatReturns(t, reply, c) ==
  /\ pc[t] = "chat" /\ Cost(t, c)
  /\ Push(t, [role |-> "assistant", calls |-> reply])
  /\ turn' = [turn EXCEPT ![t] = @ + 1]
  /\ calls' = [calls EXCEPT ![t] = reply] /\ busy' = [busy EXCEPT ![t] = FALSE]
  /\ IF reply = <<>> THEN Close(t)
                     ELSE Goto(t, "calls") /\ UNCHANGED <<shown, results>>
  /\ UNCHANGED <<recipe, stopped, slot, placed>>

Call(t) == Head(calls[t])
Result(t, how) == Push(t, [role |-> "tool", kind |-> Call(t), how |-> how])
NextCall(t) == calls' = [calls EXCEPT ![t] = Tail(@)]

Mut_SecondInteractive(t) == FALSE
SecondInteractive(t) == Call(t) = "interact" /\ busy[t]

Mut_Unfit(t) == SecondInteractive(t)
Unfit(t) == SecondInteractive(t) \/ Call(t) \notin Registry

Mut_Skip(t) ==
  /\ pc[t] = "calls" /\ calls[t] # <<>> /\ Unfit(t)
  /\ NextCall(t)
  /\ UNCHANGED <<pc, turn, busy, clock, msgs, recipe, stopped, slot, placed, shown, results>>
Skip(t) ==
  /\ pc[t] = "calls" /\ calls[t] # <<>> /\ Unfit(t)
  /\ Result(t, "skipped") /\ NextCall(t)
  /\ UNCHANGED <<pc, turn, busy, clock, recipe, stopped, slot, placed, shown, results>>

TakeUp(t) ==
  /\ pc[t] = "calls" /\ calls[t] # <<>> /\ Call(t) \in Registry /\ ~SecondInteractive(t)
  /\ busy' = [busy EXCEPT ![t] = @ \/ Call(t) = "interact"]
  /\ Goto(t, IF Call(t) = "confirm" THEN "ask" ELSE "exec")
  /\ UNCHANGED <<turn, calls, msgs, clock, recipe, stopped, slot, placed, shown, results>>

NoMoreCalls(t) ==
  /\ pc[t] = "calls" /\ calls[t] = <<>> /\ Goto(t, "turn")
  /\ UNCHANGED <<taskVars, recipe, stopped, slot, placed, shown, results>>

Allowed(t) ==
  /\ pc[t] = "ask" /\ Goto(t, "exec")
  /\ UNCHANGED <<taskVars, recipe, stopped, slot, placed, shown, results>>

(* A denial ends the take at once, the remaining calls unanswered.         *)
Mut_Denied(t) ==
  /\ pc[t] = "ask" /\ Result(t, "denied") /\ NextCall(t) /\ Goto(t, "calls")
  /\ UNCHANGED <<turn, busy, clock, recipe, stopped, slot, placed, shown, results>>
Denied(t) ==
  /\ pc[t] = "ask" /\ Result(t, "denied") /\ Close(t)
  /\ UNCHANGED <<turn, calls, busy, clock, recipe, stopped, slot, placed>>

(* The tool ran, and answered or threw; either is a result to the model.   *)
Executed(t, c) ==
  /\ pc[t] = "exec" /\ Result(t, "ran") /\ NextCall(t) /\ Cost(t, c) /\ Goto(t, "calls")
  /\ UNCHANGED <<turn, busy, recipe, stopped, slot, placed, shown, results>>

-----------------------------------------------------------------------------
Task(t) ==
  \/ CascadeMiss(t) \/ CascadeHit(t) \/ RecipeEnds(t) \/ TurnEnds(t) \/ Think(t)
  \/ ChatFails(t) \/ Skip(t) \/ TakeUp(t) \/ NoMoreCalls(t) \/ Allowed(t) \/ Denied(t)
  \/ \E ok \in BOOLEAN : Resolve(t, ok)
  \/ \E c \in 0..1 : Executed(t, c) \/ \E reply \in Replies : ChatReturns(t, reply, c)
Thread(t) == \E confirm, ok \in BOOLEAN : RecipeStep(t, confirm, ok)

Next == \/ CancelCommand
        \/ \E t \in Takes : Spawn(t) \/ Replace(t) \/ Dropped(t) \/ Task(t) \/ Thread(t)

(* Requests to the model and tools have timeouts, and an approval its own  *)
(* deadline (module ApprovalAskers), so no await lasts for ever.           *)
Spec == /\ Init /\ [][Next]_vars
        /\ \A t \in Takes : WF_vars(Task(t) \/ Dropped(t)) /\ WF_vars(Thread(t))

-----------------------------------------------------------------------------
(* Types: each take stands at one of its steps, within its turns.          *)
CommandTypeOK ==
  /\ pc \in [Takes -> Awaits \cup {"new", "turn", "calls", "done", "aborted"}]
  /\ turn \in [Takes -> 0..MaxTurns] /\ calls \in [Takes -> Replies]
  /\ stopped \subseteq Takes /\ slot \in Takes \cup {NoTake}
  /\ shown \in {"idle", "thinking"}

(* Every conversation sent to the model is one its API accepts: each call  *)
(* of each reply is answered by exactly one result, in order, before the   *)
(* next reply is asked for, be it skipped, unknown, failed or run.         *)
HistoryWellFormed ==
  \A t \in Takes : pc[t] = "chat" =>
    \A i \in DOMAIN msgs[t] : msgs[t][i].role = "assistant" =>
      LET reply == msgs[t][i].calls
          end == i + Len(reply)
      IN /\ end <= Len(msgs[t])
         /\ \A k \in 1..Len(reply) : LET m == msgs[t][i + k] IN
              m.role = "tool" /\ m.kind = reply[k]
         /\ end < Len(msgs[t]) => msgs[t][end + 1].role = "assistant"

(* Two interactive tools never run without a reply of the model between    *)
(* them: it has seen the first one's effect.                               *)
OneInteractivePerTurn ==
  \A t \in Takes : \A i, j \in DOMAIN msgs[t] :
    LET Ran(k) == msgs[t][k].role = "tool" /\ msgs[t][k].kind = "interact"
                  /\ msgs[t][k].how = "ran"
    IN i < j /\ Ran(i) /\ Ran(j) => \E k \in i..j : msgs[t][k].role = "assistant"

(* After the user refused a call, its take runs nothing and asks nothing:  *)
(* the refusal is the last thing in its conversation.                      *)
DenialIsFinal ==
  \A t \in Takes : \A i \in DOMAIN msgs[t] :
    (msgs[t][i].role = "tool" /\ msgs[t][i].how = "denied") =>
       i = Len(msgs[t]) /\ pc[t] \notin {"calls", "exec", "chat"}

(* When every take is over and none was stopped, the tongue is idle:       *)
(* every way a take can fail clears the spinner.                           *)
SpinnerClears == (stopped = {} /\ \A t \in Takes : Over(t)) => shown = "idle"

(* A take in flight can always be stopped: it is the one in the slot, or   *)
(* its dispatch is about to put it there.  A take that lost the slot was   *)
(* stopped, in whatever order two dispatches and a cancel come.            *)
NoTakeEscapes == \A t \in Takes : ~Over(t) => (slot = t \/ t \in stopped \/ t \notin placed)

(* Every take ends, by its model's last word, a cap, an error or a stop.   *)
TakesEnd == \A t \in Takes : (pc[t] # "new") ~> Over(t)

(* command_mode.rs:83: "the old task is stopped so two chains can't fight  *)
(* over the foreground app".                                               *)
Acting(t) == recipe[t] > 0 \/ pc[t] = "exec"
OneChainActs == Cardinality({t \in Takes : Acting(t)}) <= 1

(* A model is only sent histories it accepts, one interactive call of a    *)
(* reply runs, a denial ends the take, no take escapes a cancel, and the   *)
(* spinner goes with the last of them.                                     *)
CommandInv ==
  /\ CommandTypeOK
  /\ HistoryWellFormed
  /\ OneInteractivePerTurn
  /\ DenialIsFinal
  /\ NoTakeEscapes
  /\ SpinnerClears
=============================================================================
