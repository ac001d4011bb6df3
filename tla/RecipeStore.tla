---- MODULE RecipeStore ----
(* Recipes on disk: the bundled starters, the user's own directory, the     *)
(* Hub's commands on them (list, open, copy, delete, edit a comment), which *)
(* run on blocking threads at the same time, and the MCP server, another    *)
(* process over the same two directories. A recipe's identity is the id     *)
(* inside its file; the directory it lies in may have another name.         *)
EXTENDS Naturals, Sequences

CONSTANTS
  Order,      \* every directory name, in the order read_dir yields them
  Starters,   \* the bundled tree: a function from directory names to files
  UserTrees,  \* the user's tree at the start: any of these
  Copies,     \* per id, the ids a copy of it may take, in order; none: not copied here
  Targets,    \* the ids calls are made on
  Texts, Sound, Stepped,  \* bodies; those that validate; those with host steps
  Notes, NoNote, Blank,   \* comments of a step; none; one of white space only
  Typed,      \* what is typed as a comment
  Linked,     \* directories that are links out of the user's tree
  HubCallers, Mcp,        \* the Hub's threads, and the MCP server
  Edits       \* what a text editor may leave in a user file

Members(list) == {list[i] : i \in DOMAIN list}
Names == Members(Order)
NoDir == [kind |-> "none"]
EmptyDir == [kind |-> "empty"]
Broken == [kind |-> "broken"]
Recipe(id, text, note) == [kind |-> "recipe", id |-> id, text |-> text, note |-> note]
Recipes == {Recipe(i, t, n) : i \in Names, t \in Texts, n \in Notes \cup {NoNote}}
Files == {NoDir, EmptyDir, Broken} \cup Recipes

StoreAssumption ==
  /\ Sound \subseteq Texts /\ Stepped \subseteq Texts /\ Typed \subseteq Notes \cup {Blank}
  /\ Mcp \notin HubCallers
  /\ Order \in Seq(Names) /\ Targets \subseteq Names /\ Edits \subseteq Files
  /\ UserTrees \cup {Starters} \subseteq [Names -> Files]
  /\ \A id \in Names : Members(Copies[id]) \subseteq Names

(* Nobody edits by hand, and every recipe there is at the start validates.  *)
HandsOff ==
  /\ Edits = {}
  /\ \A tree \in UserTrees \cup {Starters}, d \in Names :
       tree[d].kind = "recipe" => tree[d].text \in Sound
  /\ \A tree \in UserTrees, d \in Names : tree[d].kind = "recipe" => tree[d].id = d

VARIABLES bundled, user, call
vars == <<bundled, user, call>>

Callers == HubCallers \cup {Mcp}

----
(* Reading the two trees *)

IsFile(f) == f.kind \in {"broken", "recipe"}
Parsed(tree) == {d \in Names : tree[d].kind = "recipe"}
WithId(tree, id) == {d \in Parsed(tree) : tree[d].id = id}
IdsIn(tree) == {tree[d].id : d \in Parsed(tree)}
FirstOf(dirs) ==
  LET places == {i \in DOMAIN Order : Order[i] \in dirs}
  IN  Order[CHOOSE i \in places : \A j \in places : i <= j]

Missing == [source |-> "none"]
Found(source, dir) == [source |-> source, dir |-> dir]
FindRecipeById(id) ==
  IF WithId(user, id) # {} THEN Found("user", FirstOf(WithId(user, id)))
  ELSE IF WithId(bundled, id) # {} THEN Found("bundled", FirstOf(WithId(bundled, id)))
  ELSE Missing

Row(id, source, dir) == [id |-> id, source |-> source, dir |-> dir, error |-> FALSE]
ErrorRow(source, dir) == [id |-> dir, source |-> source, dir |-> dir, error |-> TRUE]
Mut_ErrorRows(source, tree) == {}
ErrorRows(source, tree) == {ErrorRow(source, d) : d \in {e \in Names : tree[e].kind = "broken"}}
HubListings ==
  {Row(id, "user", FirstOf(WithId(user, id))) : id \in IdsIn(user)}
    \cup {Row(id, "bundled", FirstOf(WithId(bundled, id))) :
            id \in IdsIn(bundled) \ IdsIn(user)}
    \cup ErrorRows("user", user) \cup ErrorRows("bundled", bundled)

\* What a spoken command is matched against.
Mut_CollectRecipes == {user[d] : d \in Parsed(user)} \cup {bundled[d] : d \in Parsed(bundled)}
CollectRecipes ==
  LET OfUser == {user[FirstOf(WithId(user, id))] : id \in IdsIn(user)}
  IN  OfUser \cup {bundled[FirstOf(WithId(bundled, id))] : id \in IdsIn(bundled) \ IdsIn(user)}

----
(* Calls in progress *)

Idle == [at |-> "idle", by |-> "none", dir |-> "none", file |-> NoDir]
Doing(at, by, dir, file) == [at |-> at, by |-> by, dir |-> dir, file |-> file]
Becomes(c, new) == call' = [call EXCEPT ![c] = new]
File(found) == IF found.source = "user" THEN user[found.dir] ELSE bundled[found.dir]

Init ==
  /\ bundled = Starters
  /\ user \in UserTrees
  /\ call = [c \in Callers |-> Idle]

\* Only directories that are free may be chosen; the thousandth copy, named
\* by the clock, is beyond the bound.
NextAvailable(id) ==
  FirstOf({n \in Members(Copies[id]) : user[n] = NoDir})
CanCopy(id) == \E n \in Members(Copies[id]) : user[n] = NoDir

\* duplicate_to_user: find the file, then read it.
DuplicateFind(c, id) ==
  /\ call[c] = Idle
  /\ FindRecipeById(id) # Missing
  /\ Becomes(c, Doing("load", "copy", id, FindRecipeById(id)))
  /\ UNCHANGED <<bundled, user>>

\* The file may have gone or changed since it was found.
Mut_Copied(file, id) == file
Copied(file, id) == [file EXCEPT !.id = id]
DuplicateLoad(c) ==
  /\ call[c].at = "load"
  /\ LET file == File(call[c].file)
     IN  IF file.kind = "recipe" /\ Copies[file.id] # <<>>
         THEN /\ CanCopy(file.id)
              /\ LET new == NextAvailable(file.id)
                 IN  Becomes(c, Doing("make", "copy", new, Copied(file, new)))
         ELSE Becomes(c, Idle)
  /\ UNCHANGED <<bundled, user>>

\* The MCP server's save_recipe: checks, then the same three steps.
Mut_MaySave(id, file, overwrite) ==
  file.id = id /\ (IsFile(user[id]) => overwrite)
MaySave(id, file, overwrite) ==
  /\ file.id = id
  /\ file.text \in Sound
  /\ IsFile(user[id]) => overwrite
Save(id, file, overwrite) ==
  /\ call[Mcp] = Idle
  /\ MaySave(id, file, overwrite)
  /\ Becomes(Mcp, Doing("make", IF overwrite THEN "replace" ELSE "save", id, file))
  /\ UNCHANGED <<bundled, user>>

MakeDir(c) ==
  /\ call[c].at = "make"
  /\ user' = [user EXCEPT ![call[c].dir] = IF @ = NoDir THEN EmptyDir ELSE @]
  /\ Becomes(c, [call[c] EXCEPT !.at = "cut"])
  /\ UNCHANGED bundled

\* Writing a file empties it first; without its directory it fails.
Truncate(c) ==
  /\ call[c].at = "cut"
  /\ IF user[call[c].dir] = NoDir
     THEN Becomes(c, Idle) /\ UNCHANGED user
     ELSE /\ user' = [user EXCEPT ![call[c].dir] = Broken]
          /\ Becomes(c, [call[c] EXCEPT !.at = "write"])
  /\ UNCHANGED bundled
Write(c) ==
  /\ call[c].at = "write"
  /\ user' = [user EXCEPT ![call[c].dir] = IF @ = NoDir THEN @ ELSE call[c].file]
  /\ Becomes(c, Idle)
  /\ UNCHANGED bundled

\* delete_user_recipe and update_recipe_comment refuse what is not the
\* user's, or lies outside the user's tree.
Mut_OwnFile(found) == found # Missing
OwnFile(found) == found.source = "user" /\ found.dir \notin Linked

DeleteFind(c, id) ==
  /\ call[c] = Idle
  /\ OwnFile(FindRecipeById(id))
  /\ Becomes(c, Doing("remove", "delete", id, FindRecipeById(id)))
  /\ UNCHANGED <<bundled, user>>
Mut_Emptied(tree, dir) == [tree EXCEPT ![dir] = Missing]
Emptied(tree, dir) == [tree EXCEPT ![dir] = NoDir]
DeleteRemove(c) ==
  /\ call[c].at = "remove"
  /\ IF call[c].file.source = "user"
     THEN user' = Emptied(user, call[c].file.dir) /\ UNCHANGED bundled
     ELSE bundled' = Emptied(bundled, call[c].file.dir) /\ UNCHANGED user
  /\ Becomes(c, Idle)

\* A comment of white space only is no comment.
Normalised(note) == IF note = Blank THEN NoNote ELSE note
CommentFind(c, id, note) ==
  /\ call[c] = Idle
  /\ OwnFile(FindRecipeById(id))
  /\ Becomes(c, Doing("read", note, FindRecipeById(id).dir, FindRecipeById(id)))
  /\ UNCHANGED <<bundled, user>>
CommentRead(c) ==
  /\ call[c].at = "read"
  /\ LET file == user[call[c].dir]
     IN  IF file.kind = "recipe" /\ file.text \in Stepped \cap Sound
         THEN Becomes(c, Doing("cut", "comment", call[c].dir,
                               [file EXCEPT !.note = Normalised(call[c].by)]))
         ELSE Becomes(c, Idle)
  /\ UNCHANGED <<bundled, user>>

\* The user's editor, on any file of theirs.
Edit(dir, file) ==
  /\ IsFile(user[dir])
  /\ user' = [user EXCEPT ![dir] = file]
  /\ UNCHANGED <<bundled, call>>

\* The app quits, or the agent host kills the server: calls end where they are.
Quit(callers) ==
  /\ \E c \in callers : call[c] # Idle
  /\ call' = [c \in Callers |-> IF c \in callers THEN Idle ELSE call[c]]
  /\ UNCHANGED <<bundled, user>>

Next ==
  \/ \E c \in HubCallers :
       \/ \E id \in Targets :
            \/ Copies[id] # <<>> /\ DuplicateFind(c, id)
            \/ DeleteFind(c, id)
            \/ \E n \in Typed : CommentFind(c, id, n)
       \/ DuplicateLoad(c) \/ DeleteRemove(c) \/ CommentRead(c)
  \/ \E id, i \in Targets, t \in Texts, o \in BOOLEAN :
       Save(id, Recipe(i, t, NoNote), o)
  \/ \E c \in Callers : MakeDir(c) \/ Truncate(c) \/ Write(c)
  \/ \E d \in Names, f \in Edits : Edit(d, f)
  \/ Quit(HubCallers) \/ Quit({Mcp})

Spec == Init /\ [][Next]_vars

----
(* Both trees hold files, and a caller's stage is one of the calls' stages. *)
StoreTypeOK ==
  /\ bundled \in [Names -> Files] /\ user \in [Names -> Files]
  /\ \A c \in Callers : call[c].at \in
       {"idle", "load", "make", "cut", "write", "remove", "read"}

(* The Hub's row of a recipe, what a command runs under that id and what an *)
(* edit or a delete of the id finds are one and the same file, whatever the *)
(* three walks of the directories meet on the way.                          *)
OneFilePerId ==
  /\ \A r \in HubListings : ~r.error => FindRecipeById(r.id) = Found(r.source, r.dir)
  /\ \A f \in CollectRecipes : FindRecipeById(f.id) # Missing /\ File(FindRecipeById(f.id)) = f
  /\ \A id \in Names : FindRecipeById(id) # Missing =>
       File(FindRecipeById(id)) \in CollectRecipes

(* A file the user has is on the Hub's list: as the row of its id, or as a  *)
(* broken file, half-written ones included. Nothing vanishes from it.       *)
EveryFileListed ==
  \A d \in Names : IsFile(user[d]) =>
    \E r \in HubListings :
      /\ r.source = "user"
      /\ IF user[d] = Broken THEN r.dir = d /\ r.error ELSE r.id = user[d].id /\ ~r.error

(* No call, race or crash changes a starter: the two trees share ids, and   *)
(* the calls look ids up in both.                                           *)
StartersUntouched == bundled' = bundled

(* Without hand-made directories, a recipe of the user's lies in the        *)
(* directory of its id, so that an id stays one file: copies, saves and     *)
(* races between them keep it so.                                           *)
NamedAfterId == \A d \in Parsed(user) : user[d].id = d

(* What Ottid itself puts on disk validates, from a sound start: a save or  *)
(* a comment that races another writer does not leave an unsound recipe.    *)
SavedIsSound == \A d \in Parsed(user) : user[d].text \in Sound

(* An id is one file to all that look for it, the user's recipes lie under *)
(* their ids and validate, and no file is missing from the list; hand-made *)
(* directories void the last but one.                                      *)
StoreInv ==
  /\ StoreTypeOK
  /\ OneFilePerId
  /\ NamedAfterId
  /\ SavedIsSound
  /\ EveryFileListed
====
