---------------------------- MODULE LlmSettings ----------------------------
(***************************************************************************)
(* Which language model answers, on which machine and with whose key: the  *)
(* catalogue of providers, the Hub's language-model page, the settings it  *)
(* writes, and the requests the app makes out of them.                     *)
(*                                                                         *)
(* The page shows its own copy of the settings, changes it at the click    *)
(* and writes the store in calls whose answers come back later, where the  *)
(* click's handler goes on.  Those answers are one queue: calls are        *)
(* answered in the order they were made.  A request reads the settings     *)
(* when it is built, and the key only when it is sent.                     *)
(*                                                                         *)
(* A model is <<family, n>>: 1 is its provider's default, 2 the other one  *)
(* the app knows by name, and a larger number one that only the vendor's   *)
(* list names.  Both Ollama providers serve the same family.               *)
(***************************************************************************)
EXTENDS Naturals, Sequences, FiniteSets, SequencesExt

CONSTANTS Offered,     \* the ids of the providers of the instance
          Modes,       \* "command", "chat"
          Replies,     \* lists of models a vendor may answer
          RemoteCap,   \* how many models a list may hold
          MaxClicks,   \* bound: clicks on a provider
          MaxKeys,     \* bound: keys pasted and cleared
          MaxLoads,    \* bound: times the page reads the settings again
          MaxRequests, \* bound: requests built
          Patient,     \* whether the next click waits for the last one's calls
          None

CapAssumption == RemoteCap \in Nat \ {0}

VARIABLES provider,    \* the store: provider of a mode, "none", or "" before one was set
          model,       \* the store: model of a mode, None when empty
          baseUrl,     \* the store: the override of a provider, None when empty
          key,         \* the keychain: "none", "bad" or "good", of a provider
          page,        \* what the Hub shows
          calls,       \* calls of the page not yet answered
          fetches,     \* model lists asked for and not answered
          request,     \* the request being made, or None
          left         \* what is left of the bounds

vars == <<provider, model, baseUrl, key, page, calls, fetches, request, left>>
store == <<provider, model, baseUrl>>

(* ------------------------------ the catalogue -------------------------- *)
Vendor(id, family, local, needsKey, host) ==
  [id |-> id, family |-> family, isLocal |-> local, needsKey |-> needsKey,
   host |-> host]

LocalLlm     == Vendor("local-llm", "qwen", TRUE, FALSE, "server")
Anthropic    == Vendor("anthropic", "claude", FALSE, TRUE, "anthropic")
(* The hosted vendors differ in name, address and models.                  *)
Cloud(id)    == Vendor(id, id, FALSE, TRUE, id)
OpenAi       == Cloud("openai")
OpenCodeGo   == Cloud("opencode-go")
OllamaLocal  == Vendor("ollama-local", "ollama", TRUE, FALSE, "loopback")
OllamaRemote == Vendor("ollama-remote", "ollama", FALSE, FALSE, "loopback")

Catalogue == {p \in {LocalLlm, Anthropic, OpenAi, OpenCodeGo, OllamaLocal, OllamaRemote} :
                p.id \in Offered}

Ids == {p.id : p \in Catalogue}
Meta(id) == CHOOSE p \in Catalogue : p.id = id
Default(p) == <<p.family, 1>>
Known(p) == {<<p.family, 1>>, <<p.family, 2>>}        \* available_models
IsSet(id) == id \in Ids

HasApiKey(p) == p.needsKey => key[p.id] # "none"      \* what is shown
KeyNotFound(p) == p.needsKey /\ key[p.id] = "none"    \* what a call ends with

(* --------------------------- lists of models --------------------------- *)
(* An entry is [n, at, chat]: its number, when it was made (0 when the     *)
(* vendor does not say), and whether its name is one of a chat model.      *)
ChatCapable(entry) == entry.chat

NewestThenId(reply) ==
  SetToSortSeq({i \in DOMAIN reply : ChatCapable(reply[i])},
               LAMBDA i, j : \/ reply[i].at > reply[j].at
                             \/ reply[i].at = reply[j].at /\ reply[i].n < reply[j].n)
Newest(reply) ==
  SetToSortSeq(DOMAIN reply,
               LAMBDA i, j : \/ reply[i].at > reply[j].at
                             \/ reply[i].at = reply[j].at /\ i < j)

Order(p, reply) == IF p.id = "anthropic" THEN Newest(reply) ELSE NewestThenId(reply)
Capped(order) == SubSeq(order, 1, IF Len(order) < RemoteCap THEN Len(order) ELSE RemoteCap)

Mut_Listed(p, reply) ==
  LET kept == SelectSeq(Capped([i \in DOMAIN reply |-> i]), LAMBDA i : ChatCapable(reply[i]))
  IN  [i \in DOMAIN kept |-> <<p.family, reply[kept[i]].n>>]

Listed(p, reply) == [i \in DOMAIN Capped(Order(p, reply)) |->
                       <<p.family, reply[Capped(Order(p, reply))[i]].n>>]

Fallback(p) == SetToSeq(Known(p))
(* The outcome of fetch_provider_models: the list, where it is from, and   *)
(* beside them the reply and the key it was asked with.                    *)
Remote(p, reply, asked) ==
  [models |-> Listed(p, reply), source |-> "remote", of |-> reply, asked |-> asked]
FellBack(p, asked) ==
  [models |-> Fallback(p), source |-> "fallback", of |-> <<>>, asked |-> asked]
Outcome(p, reply, asked) ==
  IF Listed(p, reply) # <<>> THEN Remote(p, reply, asked) ELSE FellBack(p, asked)

(* ------------------------ what a request is made of -------------------- *)
WithModel(p, name) == IF name = None THEN Default(p) ELSE name
WithBaseUrl(p, url) == IF url = None THEN p.host ELSE url

Mut_BuildLlmProvider(p, url, name) ==
  [to |-> p.id, model |-> IF name = None THEN Default(p) ELSE name, host |-> p.host]

(* llm.rs, for the Hub's test prompt; `url` is None or an override.        *)
BuildProvider(p, url, name) ==
  [to |-> p.id, model |-> WithModel(p, name), host |-> WithBaseUrl(p, url)]
(* command_mode.rs, for a take: the same by a second piece of code.        *)
BuildLlmProvider(p, url, name) ==
  [to |-> p.id, model |-> IF name # None THEN name ELSE Default(p),
   host |-> WithBaseUrl(p, url)]

(* The local model's address is the one llama-server was started on, and   *)
(* not a setting.                                                          *)
TestUrl(p)    == IF p.id = "local-llm" THEN None ELSE baseUrl[p.id]
CommandUrl(p) == IF p.id = "local-llm" THEN None ELSE baseUrl[p.id]
SentKey(p)    == IF p.needsKey THEN key[p.id] ELSE "none"

TestRequest(mode)    == BuildProvider(Meta(provider[mode]),
                          TestUrl(Meta(provider[mode])), model[mode])
CommandRequest(mode) == BuildLlmProvider(Meta(provider[mode]),
                          CommandUrl(Meta(provider[mode])), model[mode])

(* command_mode_status, by which the overlay greys command mode out.       *)
Configured(mode) == IsSet(provider[mode]) /\ HasApiKey(Meta(provider[mode]))

(* ------------------------------- the page ------------------------------ *)
Init ==
  /\ provider = [m \in Modes |-> ""]
  /\ model = [m \in Modes |-> None]
  /\ baseUrl = [id \in Ids |-> None]
  /\ key \in [Ids -> {"none"}]
  /\ page = [active |-> [m \in Modes |-> "none"], model |-> [m \in Modes |-> None],
             hasKey |-> [id \in Ids |-> HasApiKey(Meta(id))],
             remote |-> [id \in Ids |-> None], fetching |-> None, saving |-> None]
  /\ calls = <<>>
  /\ fetches = {}
  /\ request = None
  /\ left = [clicks |-> MaxClicks, keys |-> MaxKeys, loads |-> MaxLoads,
             requests |-> MaxRequests]

Options(id) == IF page.remote[id] # None /\ page.remote[id].models # <<>>
               THEN ToSet(page.remote[id].models) ELSE Known(Meta(id))

(* selectLlmProvider, up to its first await: what the page shows and the   *)
(* setting change at once.                                                 *)
Click(mode, id) ==
  /\ left.clicks > 0 /\ (Patient => calls = <<>>)
  /\ left' = [left EXCEPT !.clicks = @ - 1]
  /\ page' = [page EXCEPT !.active[mode] = id]
  /\ provider' = [provider EXCEPT ![mode] = id]
  /\ calls' = Append(calls, [then |-> "model", mode |-> mode, id |-> id])
  /\ UNCHANGED <<model, baseUrl, key, fetches, request>>

Mut_NeedsDefault(mode, id) == id # "none" /\ page.model[mode] = None

(* Past it: a model the provider is not known to have gives way to the     *)
(* provider's default, read from the page as it is by then.                *)
NeedsDefault(mode, id) ==
  id # "none" /\ page.model[mode] \notin Known(Meta(id))

Mut_SetLlmProvider(mode, id) ==
  provider' = IF id \in Ids THEN [m \in Modes |-> id] ELSE provider

(* set_llm_provider writes the same setting once more.                     *)
SetLlmProvider(mode, id) ==
  provider' = IF id = "none" \/ id \in Ids THEN [provider EXCEPT ![mode] = id] ELSE provider

ProviderWritten(call) ==
  /\ call.then = "model"
  /\ IF NeedsDefault(call.mode, call.id)
     THEN /\ page' = [page EXCEPT !.model[call.mode] = Default(Meta(call.id))]
          /\ model' = [model EXCEPT ![call.mode] = Default(Meta(call.id))]
          /\ calls' = Append(Tail(calls), [call EXCEPT !.then = "set"])
          /\ UNCHANGED provider
     ELSE /\ SetLlmProvider(call.mode, call.id)
          /\ calls' = Tail(calls)
          /\ UNCHANGED <<page, model>>
  /\ UNCHANGED <<fetches, left>>

ModelWritten(call) ==
  /\ call.then = "set"
  /\ SetLlmProvider(call.mode, call.id)
  /\ calls' = Tail(calls)
  /\ UNCHANGED <<page, model, fetches, left>>

(* The page puts what it read into what it shows.                          *)
SettingsRead(call) ==
  /\ call.then = "show"
  /\ page' = [page EXCEPT !.active = call.active, !.model = call.model]
  /\ calls' = Tail(calls)
  /\ UNCHANGED <<provider, model, fetches, left>>

PickModel(mode, name) ==
  /\ page.active[mode] \in Ids
  /\ name \in Options(page.active[mode]) \ {page.model[mode]}
  /\ page' = [page EXCEPT !.model[mode] = name]
  /\ model' = [model EXCEPT ![mode] = name]
  /\ UNCHANGED <<provider, baseUrl, key, calls, fetches, request, left>>

(* saveLlmBaseUrl; the local model has no such setting.                    *)
SaveBaseUrl(id, url) ==
  /\ id # "local-llm"
  /\ baseUrl[id] # url
  /\ baseUrl' = [baseUrl EXCEPT ![id] = url]
  /\ UNCHANGED <<provider, model, key, page, calls, fetches, request, left>>

(* The key's field is there for a provider that is not local and shows no  *)
(* key as saved; its button is off while a save is under way.              *)
KeyField(id) == ~Meta(id).isLocal /\ ~page.hasKey[id]

SaveKey(id, secret) ==
  /\ KeyField(id)
  /\ page.saving # id
  /\ left.keys > 0
  /\ left' = [left EXCEPT !.keys = @ - 1]
  /\ key' = [key EXCEPT ![id] = secret]
  /\ page' = [page EXCEPT !.saving = id]
  /\ calls' = Append(calls, [then |-> "saved", mode |-> None, id |-> id])
  /\ UNCHANGED <<store, fetches, request>>

ClearKey(id) ==
  /\ ~Meta(id).isLocal /\ page.hasKey[id]
  /\ left.keys > 0
  /\ left' = [left EXCEPT !.keys = @ - 1]
  /\ key' = [key EXCEPT ![id] = "none"]
  /\ calls' = Append(calls, [then |-> "cleared", mode |-> None, id |-> id])
  /\ UNCHANGED <<store, page, fetches, request>>

Mut_Shown(id) == id

Shown(id) == IF id = "" THEN "none" ELSE id

(* loadLlmState: the catalogue, and then the settings once more.           *)
Reading == [then |-> "show", mode |-> None, id |-> None, model |-> model,
            active |-> [m \in Modes |-> Shown(provider[m])]]
Catalogued == [page EXCEPT !.hasKey = [id \in Ids |-> HasApiKey(Meta(id))]]
Reload(rest) == IF left.loads > 0 THEN Append(rest, Reading) ELSE rest

(* refreshProviderModels returns at once while this provider's list is     *)
(* being fetched already.                                                  *)
Fetchable(id) == page.fetching # id
Refresh(id, shown) ==
  IF Fetchable(id)
  THEN /\ page' = [shown EXCEPT !.fetching = id]
       /\ fetches' = fetches \cup {[id |-> id, asked |-> SentKey(Meta(id))]}
  ELSE page' = shown /\ fetches' = fetches

KeySaved(call) ==
  /\ call.then = "saved"
  /\ Refresh(call.id, [Catalogued EXCEPT !.saving = None])
  /\ calls' = Reload(Tail(calls))
  /\ left' = [left EXCEPT !.loads = IF @ > 0 THEN @ - 1 ELSE 0]
  /\ UNCHANGED <<provider, model>>

KeyCleared(call) ==
  /\ call.then = "cleared"
  /\ page' = Catalogued
  /\ calls' = Reload(Tail(calls))
  /\ left' = [left EXCEPT !.loads = IF @ > 0 THEN @ - 1 ELSE 0]
  /\ UNCHANGED <<provider, model, fetches>>

Answered ==
  /\ calls # <<>>
  /\ LET call == Head(calls)
     IN  \/ ProviderWritten(call) \/ ModelWritten(call) \/ SettingsRead(call)
         \/ KeySaved(call) \/ KeyCleared(call)
  /\ UNCHANGED <<baseUrl, key, request>>

(* The button beside the list.                                             *)
AskModels(id) ==
  /\ Fetchable(id) /\ page.hasKey[id]
  /\ id # "local-llm"
  /\ Refresh(id, page)
  /\ UNCHANGED <<store, key, calls, request, left>>

Fetched(fetch, result) ==
  /\ fetches' = fetches \ {fetch}
  /\ page' = [page EXCEPT !.remote[fetch.id] = result, !.fetching = None]
  /\ UNCHANGED <<store, key, calls, request, left>>

Lists(fetch, reply) ==
  /\ Meta(fetch.id).needsKey => fetch.asked = "good"
  /\ Fetched(fetch, Outcome(Meta(fetch.id), reply, fetch.asked))

(* No key, a key the vendor rejects, a limit, no network.                  *)
ListFails(fetch) == Fetched(fetch, FellBack(Meta(fetch.id), fetch.asked))

(* ------------------------------- requests ------------------------------ *)
Resolve(mode, by) ==
  /\ request = None /\ left.requests > 0
  /\ IsSet(provider[mode])
  /\ left' = [left EXCEPT !.requests = @ - 1]
  /\ request' = [by |-> by, asked |-> "none",
                 at |-> IF provider[mode] = "local-llm" THEN "server" ELSE "built",
                 what |-> IF by = "test" THEN TestRequest(mode) ELSE CommandRequest(mode)]
  /\ UNCHANGED <<store, key, page, calls, fetches>>

ServerIsUp ==
  /\ request # None /\ request.at = "server"
  /\ request' = [request EXCEPT !.at = "built"]
  /\ UNCHANGED <<store, key, page, calls, fetches, left>>

(* Not installed, not started, refused, cut off; or the last answer.       *)
Ends ==
  /\ request # None
  /\ request' = None
  /\ UNCHANGED <<store, key, page, calls, fetches, left>>

Mut_Send ==
  /\ request # None /\ request.at = "built"
  /\ ~KeyNotFound(Meta(request.what.to))
  /\ request' = [request EXCEPT !.at = "sent",
                   !.asked = IF @ = "none" THEN SentKey(Meta(request.what.to)) ELSE @]
  /\ UNCHANGED <<store, key, page, calls, fetches, left>>

(* A request that needs a key and finds none is not sent.                  *)
Send ==
  /\ request # None /\ request.at = "built"
  /\ ~KeyNotFound(Meta(request.what.to))
  /\ request' = [request EXCEPT !.at = "sent", !.asked = SentKey(Meta(request.what.to))]
  /\ UNCHANGED <<store, key, page, calls, fetches, left>>

(* A take asks again with the results of the tools, through the provider   *)
(* it built at its start.                                                  *)
NextTurn ==
  /\ request # None /\ request.at = "sent" /\ request.by = "take"
  /\ request' = [request EXCEPT !.at = "built"]
  /\ UNCHANGED <<store, key, page, calls, fetches, left>>

Next ==
  \/ \E mode \in Modes, id \in Ids \cup {"none"} : Click(mode, id)
  \/ \E mode \in Modes, p \in Catalogue, n \in 1..3 : PickModel(mode, <<p.family, n>>)
  \/ \E id \in Ids, url \in {"elsewhere", None} : SaveBaseUrl(id, url)
  \/ \E id \in Ids, secret \in {"bad", "good"} : SaveKey(id, secret)
  \/ \E id \in Ids : ClearKey(id) \/ AskModels(id)
  \/ Answered
  \/ \E fetch \in fetches : ListFails(fetch) \/ \E reply \in Replies : Lists(fetch, reply)
  \/ \E mode \in Modes, by \in {"test", "take"} : Resolve(mode, by)
  \/ ServerIsUp \/ Ends \/ Send \/ NextTurn

Spec == Init /\ [][Next]_vars

(* ------------------------------ properties ----------------------------- *)
ModelNames == {<<p.family, n>> : p \in Catalogue, n \in 1..3}

(* Types: settings, keys and requests name providers of the catalogue.     *)
SettingsTypeOK ==
  /\ provider \in [Modes -> Ids \cup {"", "none"}]
  /\ model \in [Modes -> ModelNames \cup {None}]
  /\ baseUrl \in [Ids -> {"elsewhere", None}]
  /\ key \in [Ids -> {"none", "bad", "good"}]
  /\ page.active \in [Modes -> Ids \cup {"none"}]
  /\ page.fetching \in Ids \cup {None}
  /\ fetches \subseteq [id : Ids, asked : {"none", "bad", "good"}]
  /\ request # None => request.what.to \in Ids /\ request.at \in {"server", "built", "sent"}

AtRest == calls = <<>>

(* Once its calls are answered the page shows what the store holds, and so *)
(* what the next take will use, of both modes and whatever models were     *)
(* picked in between.                                                      *)
RestsAsShown ==
  AtRest => \A m \in Modes : page.active[m] = Shown(provider[m]) /\ page.model[m] = model[m]

(* And then the model of a mode is one of its provider's: no vendor is     *)
(* asked for another vendor's model by a user who clicked and waited.      *)
OwnModel ==
  AtRest => \A m \in Modes :
    IsSet(provider[m]) => model[m] # None /\ model[m][1] = Meta(provider[m]).family

(* The test prompt and a take, built by two pieces of code, ask the same   *)
(* model at the same address: what the test shows holds for the takes.     *)
(* And the overlay greys command mode out where a take lacks its key.      *)
TestIsTheTake ==
  \A m \in Modes : IsSet(provider[m]) =>
    TestRequest(m) = CommandRequest(m) /\ Configured(m) = ~KeyNotFound(Meta(provider[m]))

(* The list a user picks from is never empty, and one that came from a     *)
(* vendor holds the newest: every chat model it leaves out is no newer     *)
(* than the ones it has.                                                   *)
ListsTheNewest ==
  \A id \in Ids : page.remote[id] # None =>
    LET shown == page.remote[id]
        numbers == {x[2] : x \in ToSet(shown.models)}
        entries == {e \in ToSet(shown.of) : id = "anthropic" \/ e.chat}
    IN  /\ shown.models # <<>>
        /\ Len(shown.models) <= RemoteCap \/ shown.source = "fallback"
        /\ shown.source = "remote" =>
             /\ numbers \subseteq {e.n : e \in entries}
             /\ \A e \in entries : e.n \notin numbers =>
                  \A f \in entries : f.n \in numbers => e.at <= f.at

(* A key changed in the Hub counts from the next request on, also within a *)
(* take that is under way.                                                 *)
RotationTakesEffect ==
  [][request' # None /\ request'.at = "sent" /\ request' # request
       => request'.asked = SentKey(Meta(request'.what.to))]_vars

(* Once the calls are answered, the store is what the page shows, a mode's *)
(* model is its provider's, and a test asks what a take asks; lists hold   *)
(* the newest models.                                                      *)
SettingsInv ==
  /\ SettingsTypeOK
  /\ RestsAsShown
  /\ OwnModel
  /\ ListsTheNewest
  /\ TestIsTheTake
=============================================================================
