------------------------------- MODULE LlmWire -------------------------------
(***************************************************************************)
(* A conversation with a language model, in the app's own messages and on  *)
(* the wire of either vendor (llm.rs, llm/anthropic.rs,                    *)
(* llm/openai_compat.rs), as Command mode holds it: the model's turn is    *)
(* translated, kept, answered call by call, and translated back with the   *)
(* next request.  Texts are members of a small set; "" is the empty one.   *)
(***************************************************************************)
EXTENDS Naturals, Sequences, SequencesExt

CONSTANTS
  AnthropicTurns,  \* turns of the Messages API: sequences of blocks
  OpenAiTurns,     \* turns of the Chat Completions API: a text and calls
  MaxTurns,        \* the cap on round trips
  None             \* no request yet, no call, nothing shown

LlmWireAssumption == MaxTurns \in Nat \ {0}

VARIABLES
  vendor,     \* whose wire it is
  messages,   \* the conversation, in the app's messages
  pending,    \* the calls of the last turn still to be answered
  raw,        \* the model's turns as they came
  sent,       \* the last request
  shown       \* what the user was told at the end, or None

vars == <<vendor, messages, pending, raw, sent, shown>>

-----------------------------------------------------------------------------
(* The app's own messages.                                                 *)
Text(s) == [type |-> "text", text |-> s, id |-> None, args |-> <<>>]
ToolCall(id, args) == [type |-> "call", text |-> "", id |-> id, args |-> args]
Msg(role, blocks) == [role |-> role, blocks |-> blocks, answers |-> None]
ToolResult(id) == [role |-> "tool", blocks |-> <<Text("result")>>, answers |-> id]

IsCall(block) == block.type = "call"
IsText(block) == block.type = "text"
Calls(blocks) == SelectSeq(blocks, IsCall)
Texts(blocks) == [i \in 1..Len(SelectSeq(blocks, IsText)) |-> SelectSeq(blocks, IsText)[i].text]
NotEmpty(s) == s # ""

(* split_content: the calls in their order, and the texts that say         *)
(* something; joining them keeps each.                                     *)
Mut_SplitText(blocks) == SelectSeq(Texts(SubSeq(blocks, 1, IF blocks = <<>> THEN 0 ELSE 1)), NotEmpty)
SplitText(blocks) == SelectSeq(Texts(blocks), NotEmpty)
Mut_SplitCalls(blocks) == blocks
SplitCalls(blocks) == Calls(blocks)

-----------------------------------------------------------------------------
(* The Messages API: a block that is neither text nor a call is left out;  *)
(* a lone text and a list of one text are the same to whoever reads it.    *)
Known(block) == block.type \in {"text", "call"}
FromAnthropic(turn) == SelectSeq(turn, Known)

(* System messages go to a field of their own; the result of a call is a   *)
(* message of the user's.                                                  *)
Mut_ToolResultBlock(msg) == <<>>
ToolResultBlock(msg) ==
  <<[role |-> "user", content |-> "result", calls |-> <<>>, texts |-> <<>>, answers |-> msg.answers]>>
AnthropicTurn(msg) ==
  <<[role |-> msg.role, content |-> IF msg.blocks = <<>> THEN "nothing" ELSE "blocks",
     calls |-> Calls(msg.blocks), texts |-> Texts(msg.blocks), answers |-> None]>>
AnthropicMessage(msg) ==
  IF msg.role = "system" THEN <<>>
  ELSE IF msg.role = "tool" THEN ToolResultBlock(msg) ELSE AnthropicTurn(msg)
SystemField(msgs) == SelectSeq(msgs, LAMBDA m : m.role = "system")
AnthropicRequest(msgs) ==
  [system |-> Len(SystemField(msgs)),
   messages |-> FlattenSeq([i \in 1..Len(msgs) |-> AnthropicMessage(msgs[i])])]

-----------------------------------------------------------------------------
(* The Chat Completions API: one text, and calls whose arguments are text  *)
(* that holds JSON.  Text that does not parse is carried as a JSON string, *)
(* and written out again with its quotes.                                  *)
Mut_ParseArgs(args) == [value |-> "string", of |-> args.of]
ParseArgs(args) == IF args.json THEN [value |-> "object", of |-> args.of]
                   ELSE [value |-> "string", of |-> args.of]
WriteArgs(value) == [json |-> TRUE, of |-> IF value.value = "object" THEN value.of ELSE <<"quoted", value.of>>]

FromOpenAi(turn) ==
  (IF turn.text = "" THEN <<>> ELSE <<Text(turn.text)>>)
    \o [i \in 1..Len(turn.calls) |-> ToolCall(turn.calls[i].id, ParseArgs(turn.calls[i].args))]

OpenAiToolCall(call) == [call EXCEPT !.args = WriteArgs(call.args)]
OpenAiCalls(blocks) == [i \in 1..Len(Calls(blocks)) |-> OpenAiToolCall(Calls(blocks)[i])]
OpenAiMessage(msg) ==
  IF msg.role = "tool"
  THEN [role |-> "tool", content |-> "result", calls |-> <<>>, texts |-> <<>>, answers |-> msg.answers]
  ELSE [role |-> msg.role, content |-> IF msg.blocks = <<>> THEN "nothing" ELSE "blocks",
        calls |-> OpenAiCalls(msg.blocks), texts |-> Texts(msg.blocks), answers |-> None]
OpenAiRequest(msgs) == [system |-> 0, messages |-> [i \in 1..Len(msgs) |-> OpenAiMessage(msgs[i])]]

-----------------------------------------------------------------------------
Request(msgs) == IF vendor = "anthropic" THEN AnthropicRequest(msgs) ELSE OpenAiRequest(msgs)
Completion(turn) == IF vendor = "anthropic" THEN FromAnthropic(turn) ELSE FromOpenAi(turn)
Turns == IF vendor = "anthropic" THEN AnthropicTurns ELSE OpenAiTurns

Init ==
  /\ vendor \in {"anthropic", "openai"}
  /\ messages = <<Msg("system", <<Text("prompt")>>), Msg("user", <<Text("said")>>)>>
  /\ pending = <<>> /\ raw = <<>> /\ sent = None /\ shown = None

(* One round trip; a turn without calls ends the take with what it says.   *)
Mut_Ends(blocks) == FALSE
Ends(blocks) == SplitCalls(blocks) = <<>>
Chat ==
  /\ pending = <<>> /\ shown = None /\ Len(raw) < MaxTurns
  /\ sent' = Request(messages)
  /\ \E turn \in Turns :
       /\ raw' = Append(raw, turn)
       /\ messages' = Append(messages, Msg("assistant", Completion(turn)))
       /\ pending' = SplitCalls(Completion(turn))
       /\ shown' = IF Ends(Completion(turn)) THEN SplitText(Completion(turn)) ELSE None
  /\ UNCHANGED vendor

ChatFails ==
  /\ pending = <<>> /\ shown = None /\ sent' = Request(messages) /\ shown' = <<"error">>
  /\ UNCHANGED <<vendor, messages, pending, raw>>

(* Every call gets its result: what the tool said, an error, or that it    *)
(* was skipped.  A denied one ends the take.                               *)
ResultOf(call) == ToolResult(call.id)
Answer ==
  /\ pending # <<>> /\ shown = None
  /\ messages' = Append(messages, ResultOf(Head(pending))) /\ pending' = Tail(pending)
  /\ \/ UNCHANGED shown
     \/ shown' = <<"denied">>
  /\ UNCHANGED <<vendor, raw, sent>>

CapReached ==
  /\ pending = <<>> /\ shown = None /\ Len(raw) = MaxTurns /\ shown' = <<"cap">>
  /\ UNCHANGED <<vendor, messages, pending, raw, sent>>

Next == Chat \/ ChatFails \/ Answer \/ CapReached
Spec == Init /\ [][Next]_vars

-----------------------------------------------------------------------------
(* Types: a message has one of the four roles, and what is pending is      *)
(* calls.                                                                  *)
WireTypeOK ==
  /\ vendor \in {"anthropic", "openai"} /\ Len(raw) <= MaxTurns
  /\ \A i \in 1..Len(messages) : messages[i].role \in {"system", "user", "assistant", "tool"}
  /\ \A i \in 1..Len(pending) : IsCall(pending[i])

OnWire == IF sent = None THEN <<>> ELSE sent.messages
Assistants == SelectSeq(OnWire, LAMBDA m : m.role = "assistant")

NextTurn(i) == CHOOSE j \in i + 1..Len(OnWire) + 1 :
  /\ j = Len(OnWire) + 1 \/ OnWire[j].role = "assistant"
  /\ \A k \in i + 1..j - 1 : OnWire[k].role # "assistant"

(* In every request, each call of each of the model's turns is answered    *)
(* exactly once before its next turn, and nothing else is answered         *)
(* (build_request of both, tool_result_msg): a vendor refuses the request  *)
(* otherwise.                                                              *)
CallsAnswered ==
  \A i \in 1..Len(OnWire) : OnWire[i].role = "assistant" =>
    [k \in 1..NextTurn(i) - i - 1 |-> OnWire[i + k].answers]
      = [k \in 1..Len(OnWire[i].calls) |-> OnWire[i].calls[k].id]

Said(turn) ==
  IF vendor = "anthropic" THEN [calls |-> Calls(turn), texts |-> Texts(turn)]
  ELSE [calls |-> [k \in 1..Len(turn.calls) |-> ToolCall(turn.calls[k].id, turn.calls[k].args)],
        texts |-> IF turn.text = "" THEN <<>> ELSE <<turn.text>>]
Same(back, given) ==
  /\ back.id = given.id
  /\ (vendor = "openai" => (given.args.json => back.args = given.args))
  /\ (vendor = "anthropic" => back.args = given.args)

(* The model is told its own turns as it gave them: the same calls, with   *)
(* the same arguments when they were JSON, and the same texts, however     *)
(* often they have been back and forth (response_to_completion and         *)
(* build_request of both vendors).                                         *)
EchoedAsSaid ==
  /\ Len(Assistants) <= Len(raw)
  /\ \A i \in 1..Len(Assistants) :
       /\ Assistants[i].texts = Said(raw[i]).texts
       /\ Len(Assistants[i].calls) = Len(Said(raw[i]).calls)
       /\ \A k \in 1..Len(Assistants[i].calls) : Same(Assistants[i].calls[k], Said(raw[i]).calls[k])

(* No request holds a turn of nothing: a turn whose every block is left    *)
(* out, or that is empty, ends the take.                                   *)
NoEmptyTurn == \A i \in 1..Len(OnWire) : OnWire[i].content # "nothing"

(* What the user is told at the end is all the last turn said.             *)
SaysItAll ==
  (shown # None /\ raw # <<>> /\ Ends(Completion(Last(raw))) /\ shown # <<"error">>)
    => shown = SelectSeq(Said(Last(raw)).texts, NotEmpty)

(* Whatever a model says, the next request gives it back as said, answers  *)
(* each of its calls once and holds no empty turn, and the user is shown   *)
(* all of its text.                                                        *)
WireInv ==
  /\ WireTypeOK
  /\ CallsAnswered
  /\ EchoedAsSaid
  /\ NoEmptyTurn
  /\ SaysItAll
=============================================================================
