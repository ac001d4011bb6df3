------------------------------ MODULE MCCommand ------------------------------
(***************************************************************************)
(* The models and agents that act for the user. Command mode: the loop of  *)
(* a take over the model and its tools, the conversation as each vendor's  *)
(* wire carries it, and the providers and keys the user sets. The coding   *)
(* agents: the hooks' entries in their settings, and the list of their     *)
(* sessions. The parts share no state; a behaviour is one of a single      *)
(* part, and the run takes each in turn.                                   *)
(***************************************************************************)
EXTENDS Naturals, Sequences, FiniteSets

CONSTANTS Parts, None, Missing

(* Turns of the model: none, one or more calls, with a text before, between *)
(* or after them, a block of another kind, and arguments that do not parse. *)
Words(s) == [type |-> "text", text |-> s, id |-> None, args |-> <<>>]
Calling(id) == [type |-> "call", text |-> "", id |-> id, args |-> <<"in", id>>]
Other == [type |-> "other", text |-> "odd", id |-> None, args |-> <<>>]
MessagesTurns ==
  {<<Words("a")>>, <<>>, <<Other>>, <<Words("a"), Words("b")>>, <<Words("")>>,
   <<Calling("x")>>, <<Words("a"), Calling("x"), Calling("y")>>,
   <<Other, Calling("y"), Words("b")>>, <<Calling("y"), Other, Calling("x")>>}
Function(id, json) == [id |-> id, args |-> [json |-> json, of |-> <<"in", id>>]]
CompletionsTurns ==
  [text : {"", "a"},
   calls : {<<>>, <<Function("x", TRUE)>>, <<Function("x", TRUE), Function("y", TRUE)>>,
            <<Function("y", FALSE), Function("x", TRUE)>>}]

(* Lists of three models, made at different times or at no known one; one   *)
(* is not a chat model, so that a list may hold nothing the app can use.    *)
Entry(n, at, chat) == [n |-> n, at |-> at, chat |-> chat]
SomeLists ==
  {<<Entry(1, 1, TRUE), Entry(2, 0, FALSE), Entry(3, 2, TRUE)>>,
   <<Entry(3, 0, TRUE), Entry(1, 0, TRUE), Entry(2, 1, TRUE)>>,
   <<Entry(2, 0, FALSE)>>, <<>>}

(* The agent's settings as a user may leave them, two events of hooks each: *)
(* without hooks, with the user's, with Ottid's of this or an older         *)
(* version, in one group or apart, twice over, and a file that is not JSON. *)
HookEvents == {"PermissionRequest", "Stop"}
HookLists == {<<>>, <<<<"user">>>>, <<<<"new">>>>, <<<<"old">>, <<"user">>>>,
              <<<<"user", "old">>, <<"new">>>>, <<<<"user">>, <<"user", "new">>>>,
              <<<<"new">>, <<"old">>>>}
File(first, second, rest) ==
  [good |-> TRUE, rest |-> rest,
   hooks |-> [e \in HookEvents |-> IF e = "Stop" THEN second ELSE first]]
SomeFiles ==
  {File(l, <<>>, 1) : l \in HookLists} \cup {File(<<<<"user">>>>, <<<<"old">>>>, 0)}
    \cup {[File(<<>>, <<>>, 2) EXCEPT !.good = FALSE]}

VARIABLES
  part,  \* the part that runs
  pc, turn, commandTakeCalls, busy, msgs, clock, recipe, stopped,
  commandTakeSlot, placed, commandTakeShown, results,  \* CommandTake
  vendor, messages, pending, raw, llmWireSent, llmWireShown,  \* LlmWire
  provider, model, baseUrl, llmSettingsKey, page, llmSettingsCalls,
  fetches, request, left,  \* LlmSettings
  file, staging, backups, preview, call, users, edits,  \* HookSettings
  flight, index, entries, nextId, agentActivityShown, agentActivitySent  \* AgentActivity

commandTakeVars == <<pc, turn, commandTakeCalls, busy, msgs, clock, recipe, stopped,
  commandTakeSlot, placed, commandTakeShown, results>>
llmWireVars == <<vendor, messages, pending, raw, llmWireSent, llmWireShown>>
llmSettingsVars == <<provider, model, baseUrl, llmSettingsKey, page,
  llmSettingsCalls, fetches, request, left>>
hookSettingsVars == <<file, staging, backups, preview, call, users, edits>>
agentActivityVars == <<flight, index, entries, nextId, agentActivityShown,
  agentActivitySent>>
vars == <<part, commandTakeVars, llmWireVars, llmSettingsVars, hookSettingsVars,
  agentActivityVars>>

T == INSTANCE CommandTake WITH Takes <- {1}, MaxTurns <- 2, Budget <- 1,
       MaxCalls <- 2, Steps <- 1, Cancels <- FALSE, calls <- commandTakeCalls,
       slot <- commandTakeSlot, shown <- commandTakeShown
U == INSTANCE CommandTake WITH Takes <- {1, 2}, MaxTurns <- 1, Budget <- 1,
       MaxCalls <- 1, Steps <- 2, Cancels <- TRUE, calls <- commandTakeCalls,
       slot <- commandTakeSlot, shown <- commandTakeShown
W == INSTANCE LlmWire WITH AnthropicTurns <- MessagesTurns,
       OpenAiTurns <- CompletionsTurns, MaxTurns <- 3, sent <- llmWireSent,
       shown <- llmWireShown
P == INSTANCE LlmSettings WITH Offered <- {"openai", "ollama-remote", "local-llm"},
       Modes <- {"command", "chat"}, Replies <- {<<>>}, RemoteCap <- 2,
       MaxClicks <- 3, MaxKeys <- 0, MaxLoads <- 0, MaxRequests <- 0,
       Patient <- TRUE, key <- llmSettingsKey, calls <- llmSettingsCalls
L == INSTANCE LlmSettings WITH Offered <- {"opencode-go"}, Modes <- {"command"},
       Replies <- SomeLists, RemoteCap <- 2, MaxClicks <- 1, MaxKeys <- 2,
       MaxLoads <- 1, MaxRequests <- 0, Patient <- TRUE, key <- llmSettingsKey,
       calls <- llmSettingsCalls
A == INSTANCE LlmSettings WITH Offered <- {"anthropic", "local-llm"},
       Modes <- {"command"}, Replies <- {<<>>}, RemoteCap <- 2, MaxClicks <- 1,
       MaxKeys <- 3, MaxLoads <- 0, MaxRequests <- 1, Patient <- TRUE,
       key <- llmSettingsKey, calls <- llmSettingsCalls
H == INSTANCE HookSettings WITH Events <- HookEvents, UserFiles <- SomeFiles,
       Calls <- {"a"}, RaceEdits <- FALSE, MaxEdits <- 1
S == INSTANCE AgentActivity WITH Sessions <- {"s1", "s2", "s3"},
       Kinds <- {"PreToolUse", "Stop"}, Cap <- 2, Long <- 2, MaxEvents <- 3,
       MaxTitles <- 1, shown <- agentActivityShown, sent <- agentActivitySent
F == INSTANCE AgentActivity WITH Sessions <- {"s1", "s2"},
       Kinds <- {"UserPromptSubmit", "Stop", "Interrupt", "StopFailure", "SessionEnd"},
       Cap <- 2, Long <- 2, MaxEvents <- 3, MaxTitles <- 0,
       shown <- agentActivityShown, sent <- agentActivitySent

ASSUME CommandAssumption ==
  /\ W!LlmWireAssumption
  /\ P!CapAssumption
  /\ L!CapAssumption
  /\ A!CapAssumption
  /\ H!SettingsAssumption

(* Each part in its initial states; the parts that do not run rest in one  *)
(* of them.                                                                *)
Init ==
  /\ part \in Parts
  /\ CASE part = "two" -> U!Init
       [] OTHER -> T!Init
  /\ W!Init
  /\ part # "wire" => vendor = "openai"
  /\ CASE part = "lists" -> L!Init
       [] part = "ask" -> A!Init
       [] OTHER -> P!Init
  /\ H!Init
  /\ part # "hooks" => file = Missing
  /\ CASE part = "forgets" -> F!Init
       [] OTHER -> S!Init

Next ==
  /\ UNCHANGED part
  /\ CASE part = "take" -> T!Next
       [] part = "two" -> U!Next
       [] OTHER -> UNCHANGED commandTakeVars
  /\ IF part = "wire" THEN W!Next ELSE UNCHANGED llmWireVars
  /\ CASE part = "settings" -> P!Next
       [] part = "lists" -> L!Next
       [] part = "ask" -> A!Next
       [] OTHER -> UNCHANGED llmSettingsVars
  /\ IF part = "hooks" THEN H!Next ELSE UNCHANGED hookSettingsVars
  /\ CASE part = "activity" -> S!Next
       [] part = "forgets" -> F!Next
       [] OTHER -> UNCHANGED agentActivityVars

(* Each part with the fairness of its own specification.                   *)
Fairness ==
  /\ WF_commandTakeVars(part = "take" /\ (T!Task(1) \/ T!Dropped(1)))
  /\ WF_commandTakeVars(part = "take" /\ T!Thread(1))
  /\ WF_agentActivityVars(part = "forgets" /\ F!Look)
  /\ WF_agentActivityVars(part = "forgets" /\ F!Tick)

Spec == Init /\ [][Next]_vars /\ Fairness

-----------------------------------------------------------------------------
(* Command mode never sends a model a history it refuses, acts twice on    *)
(* one look at the screen or acts on after a denial, and no take escapes a *)
(* cancel; either vendor's wire gives back what was said.                  *)
ConversationInv ==
  /\ (part = "take" => T!CommandInv)
  /\ (part = "two" => U!CommandInv)
  /\ (part = "wire" => W!WireInv)

(* Once the calls are answered, the store is what the Hub shows, a mode's  *)
(* model is its provider's, and a test asks what a take asks; lists hold   *)
(* the newest models.                                                      *)
SettingsInv ==
  /\ (part = "settings" => P!SettingsInv)
  /\ (part = "lists" => L!SettingsTypeOK)
  /\ (part = "lists" => L!OwnModel)
  /\ (part = "lists" => L!ListsTheNewest)
  /\ (part = "lists" => L!TestIsTheTake)
  /\ (part = "ask" => A!SettingsInv)

(* The user's hooks stay as they are, and a plan leaves nothing for the    *)
(* next one to do; a session has its own title, the summary is of the      *)
(* list, and a finished session goes before a silent one.                  *)
AgentsInv ==
  /\ (part = "hooks" => H!HookSettingsInv)
  /\ (part = "activity" => S!ActivityInv)
  /\ (part = "forgets" => F!ActivityInv)

(* A new key counts from the next request; applying replaces what was      *)
(* previewed and backed up; a session keeps its title and the stalest      *)
(* makes room; and every take ends and every dead session goes.            *)
CommandBehaviour ==
  /\ A!RotationTakesEffect
  /\ H!NothingLost
  /\ H!AsPreviewed
  /\ H!OnlyRenameChanges
  /\ S!IdsNameSessions
  /\ S!TitleKept
  /\ S!PushesOutTheStalest
  /\ (part = "take" => T!TakesEnd)
  /\ (part = "forgets" => F!Forgotten)

(* The chains of two takes never act at once (dispatch_transcript: the old *)
(* task is stopped "so two chains can't fight over the foreground app").   *)
OneChainActs == part = "two" => U!OneChainActs
==============================================================================
