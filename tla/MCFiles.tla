------------------------------- MODULE MCFiles -------------------------------
(***************************************************************************)
(* What command mode runs and what the app keeps on disk: recipes as they  *)
(* run and as the Hub edits them, the tools that write and move files, the *)
(* models' files and the server of the local model, and the data carried   *)
(* over from the app's old name. The parts share no state; a behaviour is  *)
(* one of a single part, and the run takes each in turn.                   *)
(***************************************************************************)
EXTENDS Naturals, Sequences, FiniteSets, SequencesExt

CONSTANTS Parts, None, NoFocus, NoNote, Blank,
  Paths, Away, Written, ToolCalls, ToolFailures, ToolCrashes,  \* FileTools
  Procs, Entries, Solid, Overwrites, CarryFailures, CarryCrashes,  \* CarryOver
  Askers, Served, Ports, Pipe, MaxSpawns, MaxCalls, MaxOthers  \* LlamaServer

Step(kind, uses) ==
  [kind |-> kind, uses |-> uses, aside |-> {}, binds |-> None, dry |-> FALSE]
Binding(kind, uses, var) == [Step(kind, uses) EXCEPT !.binds = var]
Word(w) == [slot |-> FALSE, name |-> w]
Slot(n) == [slot |-> TRUE, name |-> n]
Make(params, required, win, mac, shell, intents) ==
  [params |-> params, required |-> required, shell |-> shell, intents |-> intents,
   wellFormed |-> TRUE, steps |-> [windows |-> win, macos |-> mac, linux |-> None]]

(* A recipe of two slots and a change of focus; one with an optional slot   *)
(* that keeps the clipboard; one whose shell is asked for first; those that *)
(* use a value before it is bound, bind it elsewhere only, are of another   *)
(* platform, or name a value nobody binds; and one that is done in pictures.*)
Send == Make(<<"to", "body">>, {"to", "body"},
  <<Step("focus_window", {"to"}), Step("key_chord", {}), Step("wait_for_focus_change", {}),
    Step("type_unicode", {"body"})>>, None, FALSE,
  <<<<Word("send"), Slot("body"), Word("to"), Slot("to")>>, <<Word("mail"), Slot("body")>>>>)
Mail == Make(<<"body">>, {},
  <<Binding("clipboard_get_into", {}, "kept"), Step("clipboard_set", {"body"}),
    Step("wait_for_window", {}), Step("wait_ms", {}), Step("clipboard_set", {"kept"})>>,
  <<Binding("clipboard_get_into", {}, "mac")>>, FALSE,
  <<<<Word("mail"), Slot("body")>>, <<Word("mail")>>>>)
Rename == Make(<<"dir">>, {"dir"},
  <<[Binding("run_shell", {"dir"}, "out") EXCEPT !.dry = TRUE],
    Binding("run_shell", {"dir", "out"}, "out"), Step("open_url", {"out"}),
    Step("run_shell", {"out"})>>, None, TRUE, <<<<Slot("dir"), Slot("dir")>>>>)
Early == Make(<<>>, {},
  <<Step("open_app", {"late"}), Binding("clipboard_get_into", {}, "late")>>, None, FALSE, <<>>)
Elsewhere == Make(<<>>, {}, <<Step("open_app", {"mac"})>>,
  <<Binding("clipboard_get_into", {}, "mac")>>, FALSE, <<>>)
MacOnly == Make(<<>>, {}, None, <<Step("key_chord", {})>>, FALSE, <<>>)
Ghost == Make(<<"to">>, {"to"}, <<Step("key_chord", {}), Step("open_url", {"to", "ghost"})>>,
  None, FALSE, <<>>)
Click == Make(<<>>, {}, <<Step("screenshot_to_clipboard", {}), Step("click_label", {}),
  Step("run_shell", {})>>, None, FALSE, <<>>)
SomeRecipes == <<Send, Mail, Rename, Early, Elsewhere, MacOnly, Ghost, Click>>
SomeSaid == {<<"send", "hi", "to", "to", "me">>, <<"mail">>, <<"mail", "it">>, <<"what">>,
             <<"a", "b">>}
A == <<"a">>
SomeGiven == {<<>>, [to |-> A, body |-> A, dir |-> A], [to |-> A], [dir |-> A]}

(* The recipes on disk: a starter whose directory has the name of another   *)
(* id, a user recipe of the starter's id, and what an editor may leave.     *)
DirOrder == <<"copy", "copy-2", "lock", "lock_ws">>
Nothing == [d \in ToSet(DirOrder) |-> [kind |-> "none"]]
Body(id, text, note) == [kind |-> "recipe", id |-> id, text |-> text, note |-> note]
Bundle == [Nothing EXCEPT !["lock_ws"] = Body("lock", "one", NoNote)]
Shadow == [Nothing EXCEPT !["lock"] = Body("lock", "one", "note")]
CopyIds == [d \in ToSet(DirOrder) |-> IF d = "lock" THEN <<"copy", "copy-2">> ELSE <<>>]
HandEdits == {[kind |-> "broken"], Body("copy", "bad", NoNote)}

(* Two threads of the Hub and the MCP server on one recipe, and the Hub     *)
(* beside an editor.                                                        *)
Races == [tree |-> Shadow, targets |-> {"lock"}, notes |-> {"note"}, typed |-> {Blank},
          hub |-> {"h1", "h2"}, edits |-> {}]
Edited == [tree |-> Bundle, targets |-> {"lock", "copy"}, notes |-> {}, typed |-> {},
           hub |-> {"h1"}, edits |-> HandEdits]

(* The models that ship with a classifier to load, and one to download.    *)
Ships == [bundled |-> {"mel", "embed", "hey"}, downloads |-> {"jarvis"}]
Fetches == [bundled |-> {}, downloads |-> {"gguf"}]

VARIABLES
  part,  \* the part that runs
  at, who, recipe, bound, done, recipeRunResult, did, asked, poll,
  recipeRunBefore, focus, orphan,  \* RecipeRun
  bundled, user, recipeStoreCall,  \* RecipeStore
  file, temp, fileToolsCall, step, fileToolsResult, fileToolsBefore,
  calls, fileToolsFailures, fileToolsCrashes,  \* FileTools
  disk, partial, anchor, pin, staging, get, running, outside,  \* ModelFiles
  oldDir, newDir, old, new, pc, seen, entry, kept, had,
  carryOverFailures, carryOverCrashes,  \* CarryOver
  procs, holder, llamaServerSlot, queue, llamaServerCall, files,
  spawns, llamaServerCalls, others, app  \* LlamaServer

recipeRunVars == <<at, who, recipe, bound, done, recipeRunResult, did, asked, poll,
  recipeRunBefore, focus, orphan>>
recipeStoreVars == <<bundled, user, recipeStoreCall>>
fileToolsVars == <<file, temp, fileToolsCall, step, fileToolsResult,
  fileToolsBefore, calls, fileToolsFailures, fileToolsCrashes>>
modelFilesVars == <<disk, partial, anchor, pin, staging, get, running, outside>>
carryOverVars == <<oldDir, newDir, old, new, pc, seen, entry, kept, had,
  carryOverFailures, carryOverCrashes>>
llamaServerVars == <<procs, holder, llamaServerSlot, queue, llamaServerCall, files,
  spawns, llamaServerCalls, others, app>>
vars == <<part, recipeRunVars, recipeStoreVars, fileToolsVars, modelFilesVars,
  carryOverVars, llamaServerVars>>

R == INSTANCE RecipeRun WITH Recipes <- SomeRecipes, Said <- SomeSaid,
       Given <- SomeGiven, Values <- {<<"v">>}, Host <- "windows",
       Elements <- {"e1", "e2"}, Limit <- 1, result <- recipeRunResult,
       before <- recipeRunBefore
S(k) == INSTANCE RecipeStore WITH Order <- DirOrder, Starters <- Bundle,
          UserTrees <- {k.tree}, Copies <- CopyIds, Targets <- k.targets,
          Texts <- {"one", "bad"}, Sound <- {"one"}, Stepped <- {"one", "bad"},
          Notes <- k.notes, Typed <- k.typed, Linked <- {}, HubCallers <- k.hub,
          Mcp <- "mcp", Edits <- k.edits, call <- recipeStoreCall
T == INSTANCE FileTools WITH Texts <- Written, MaxCalls <- ToolCalls,
       MaxFailures <- ToolFailures, MaxCrashes <- ToolCrashes,
       call <- fileToolsCall, result <- fileToolsResult, before <- fileToolsBefore,
       failures <- fileToolsFailures, crashes <- fileToolsCrashes
M(k) == INSTANCE ModelFiles WITH Bundled <- k.bundled, Downloads <- k.downloads,
          MaxOutside <- 1
C == INSTANCE CarryOver WITH Names <- Entries, Replaces <- Overwrites,
       MaxFailures <- CarryFailures, MaxCrashes <- CarryCrashes,
       failures <- carryOverFailures, crashes <- carryOverCrashes
L == INSTANCE LlamaServer WITH Callers <- Askers, Models <- Served,
       slot <- llamaServerSlot, call <- llamaServerCall, calls <- llamaServerCalls

ASSUME FilesAssumption ==
  /\ R!RunAssumption
  /\ S(Races)!StoreAssumption /\ S(Races)!HandsOff
  /\ S(Edited)!StoreAssumption
  /\ M(Ships)!ModelFilesAssumption
  /\ M(Fetches)!ModelFilesAssumption
  /\ T!ToolsAssumption
  /\ C!CarryAssumption
  /\ L!LlamaAssumption

(* Each part in its initial states; the parts that do not run rest in one  *)
(* of them.                                                                *)
Init ==
  /\ part \in Parts
  /\ R!Init
  /\ part # "recipe" => focus = NoFocus
  /\ CASE part = "edit" -> S(Edited)!Init
       [] OTHER -> S(Races)!Init
  /\ part \notin {"store", "edit"} => user = Shadow
  /\ T!Init
  /\ part # "tools" => file = [p \in Paths |-> None]
  /\ CASE part = "download" -> M(Fetches)!Init
       [] OTHER -> M(Ships)!Init
  /\ part \notin {"load", "download"} => pin = [sha |-> TRUE, size |-> TRUE]
  /\ C!Init
  /\ part # "carry" =>
       had = {} /\ newDir /\ new = [n \in Entries |-> None]
  /\ L!Init
  /\ part # "server" => files = {}

Next ==
  /\ UNCHANGED part
  /\ IF part = "recipe" THEN R!Next ELSE UNCHANGED recipeRunVars
  /\ CASE part = "store" -> S(Races)!Next
       [] part = "edit" -> S(Edited)!Next
       [] OTHER -> UNCHANGED recipeStoreVars
  /\ IF part = "tools" THEN T!Next ELSE UNCHANGED fileToolsVars
  /\ CASE part = "load" -> M(Ships)!Next
       [] part = "download" -> M(Fetches)!Next
       [] OTHER -> UNCHANGED modelFilesVars
  /\ IF part = "carry" THEN C!Next ELSE UNCHANGED carryOverVars
  /\ IF part = "server" THEN L!Next ELSE UNCHANGED llamaServerVars

(* Each part with the fairness of its own specification.                   *)
Fairness ==
  /\ WF_recipeRunVars(part = "recipe" /\ R!Execute)
  /\ \A p \in Procs :
       /\ WF_carryOverVars(part = "carry" /\ C!Adopts(p))
       /\ WF_carryOverVars(part = "carry" /\ (C!Start(p) \/ C!Ends(p)))
  /\ \A c \in Askers :
       /\ WF_llamaServerVars(part = "server" /\ L!Readies(c))
       /\ WF_llamaServerVars(part = "server" /\ L!Waits(c))
       /\ WF_llamaServerVars(part = "server" /\ L!Calls(c))
       /\ SF_llamaServerVars(part = "server" /\ L!Reply(c) /\ L!Leaves(c))
  /\ \A p \in L!Pids :
       /\ WF_llamaServerVars(part = "server" /\ L!Forward(p))
       /\ WF_llamaServerVars(part = "server" /\ procs[p].st = "killed" /\ L!Dies(p))

Spec == Init /\ [][Next]_vars /\ Fairness

-----------------------------------------------------------------------------
(* A run does a prefix of its recipe and what was allowed of it, and an id *)
(* is one file to all that look for it, however calls, editors and crashes *)
(* meet.                                                                   *)
RecipesInv ==
  /\ (part = "recipe" => R!RunInv)
  /\ (part = "store" => S(Races)!StoreInv)
  /\ S(Edited)!OneFilePerId
  /\ (part = "edit" => S(Edited)!EveryFileListed)

(* Whatever fails and whenever the app ends, a file being written, moved   *)
(* or carried over is whole and in one place, and the model is told what   *)
(* happened to it.                                                         *)
UserFilesInv ==
  /\ (part = "tools" => T!ToolsInv)
  /\ (part = "carry" => C!CarryInv)

(* What loads was verified and what is listed as installed is whole,       *)
(* whatever was cut off.                                                   *)
ModelFilesInv ==
  /\ (part = "load" => M(Ships)!ModelFilesInv)
  /\ (part = "download" => M(Fetches)!ModelFilesInv)

(* A caller is handed a server of its own model, and no server is left     *)
(* running.                                                                *)
LlamaInv == part = "server" => L!LlamaInv

(* No call changes a starter, the user's own model files are not written   *)
(* over, an install that says it is done is, a model that is listed stays  *)
(* usable, and the new directory's entries win.                            *)
FilesSteps ==
  /\ [][S(Races)!StartersUntouched]_vars
  /\ [][M(Ships)!OwnIsKept /\ M(Fetches)!OkIsRight /\ M(Fetches)!KeepsTheListed]_vars
  /\ C!NewWins

(* The steps of the files are as above; and every run, every carry-over    *)
(* and every call of the server ends.                                      *)
FilesBehaviour ==
  /\ FilesSteps
  /\ (part = "recipe" => R!RunEnds)
  /\ (part = "carry" => C!AllCarried)
  /\ (part = "carry" => C!OldIsTidied)
  /\ (part = "server" => L!ServerCallsEnd)
==============================================================================
